---- MODULE Spec2Model ----
(***************************************************************************)
(* A model of the neurotk bundle inference pipeline:                       *)
(*   - run_inference (neurotk/inference/runner.py): the batch loop,       *)
(*   - make_dice_helper_compat / install_transform_compat                  *)
(*     (neurotk/inference/monai_compat.py),                                *)
(*   - resolve_bundle_dir (neurotk/inference/config.py),                   *)
(*   - BundlePredictor construction and predict_volume                     *)
(*     (neurotk/inference/predictor.py),                                   *)
(*   - _resolve_inputs (runner.py), dice_score (metrics.py),               *)
(*   - cli.run (neurotk/cli.py) and the /run handler (webapp/main.py).     *)
(* Strings are sequences of one-character strings, so that startswith,     *)
(* strip, split and the regular expression are computed as the code does.  *)
(* Each subsystem has its own specification; the variables of the other    *)
(* subsystems stay at their idle values.                                   *)
(***************************************************************************)
EXTENDS Integers, Sequences, FiniteSets, TLC

VARIABLES
    \* run_inference
    inputs, save_probs, labels, hausdorff, pc, idx, pred, lastArr, outfiles,
    written, metrics, exc, report, csv, predictor, reference_image, meta, frame,
    stdout,
    \* make_dice_helper_compat
    dhClass, dhSupports, dhPc, dhCall,
    \* install_transform_compat
    tmModule, tmPc, tmBefore, tmResult,
    \* resolve_bundle_dir
    rbRef, rbFs, rbPc, rbResult, rbDownloads,
    \* BundlePredictor.__init__
    bpBundle, bpFiles, bpCkptArg, bpDeviceArg, bpCfg, bpPc, bpConfigFile,
    bpSegmenter, bpLoads, bpNet, bpPre, bpPost, bpInferer, bpError, bpLog,
    \* BundlePredictor.predict_volume
    bpImage, bpCalls, bpOut,
    \* _resolve_inputs
    riPath, riList, riFs, riPc, riResult,
    \* dice_score
    dsPred, dsTarget, dsPc, dsResult,
    \* cli.run
    cliCommand, cliHandlers, cliPc, cliCalled, cliResult,
    \* webapp /run
    wForm, wPc, wDirs, wLock, wSweep, wCmds, wSaved, wResp, wNow, wTtl, wRemoved

runVars == <<inputs, save_probs, labels, hausdorff, pc, idx, pred, lastArr,
             outfiles, written, metrics, exc, report, csv, predictor, reference_image,
             meta, frame, stdout>>
dhVars == <<dhClass, dhSupports, dhPc, dhCall>>
tmVars == <<tmModule, tmPc, tmBefore, tmResult>>
rbVars == <<rbRef, rbFs, rbPc, rbResult, rbDownloads>>
bpVars == <<bpBundle, bpFiles, bpCkptArg, bpDeviceArg, bpCfg, bpPc, bpConfigFile,
           bpSegmenter, bpLoads, bpNet, bpPre, bpPost, bpInferer, bpError, bpLog,
           bpImage, bpCalls, bpOut>>
riVars == <<riPath, riList, riFs, riPc, riResult>>
dsVars == <<dsPred, dsTarget, dsPc, dsResult>>
cliVars == <<cliCommand, cliHandlers, cliPc, cliCalled, cliResult>>
webVars == <<wForm, wPc, wDirs, wLock, wSweep, wCmds, wSaved, wResp, wNow, wTtl, wRemoved>>
vars == <<runVars, dhVars, tmVars, rbVars, bpVars, riVars, dsVars, cliVars, webVars>>

None == "None"
Absent == "absent"
Null == "null"

(***************************************************************************)
(* Strings                                                                 *)
(***************************************************************************)
StartsWith(s, p) == Len(s) >= Len(p) /\ SubSeq(s, 1, Len(p)) = p

EndsWith(s, p) == Len(s) >= Len(p) /\ SubSeq(s, Len(s) - Len(p) + 1, Len(s)) = p

\* s[:-n]
DropLast(s, n) == SubSeq(s, 1, Len(s) - n)

\* s[n:]
DropFirst(s, n) == SubSeq(s, n + 1, Len(s))

NII == <<".", "n", "i", "i">>
NIIGZ == <<".", "n", "i", "i", ".", "g", "z">>
SEG == <<"_", "s", "e", "g">>
PROB == <<"_", "p", "r", "o", "b">>

(***************************************************************************)
(* Tensors and arrays. Values are in tenths (0.5 is 5, the integer k is    *)
(* 10 * k). A tensor has a leading channel dimension when ndim >= 4;       *)
(* vals[c][v] is the value of channel c at voxel v. Without a channel      *)
(* dimension vals holds the one volume.                                    *)
(***************************************************************************)
Voxels == {1, 2}

Tenths(k) == 10 * k

Volumes(V) == [Voxels -> V]

Const(x) == [v \in Voxels |-> x]

\* predictions with a channel dimension: 1, 2 and 3 channels
FloatPreds ==
    { [chan |-> TRUE, dtype |-> "float32", vals |-> <<a>>] :
        a \in Volumes({2, 8}) \cup {Const(5)} }
    \cup { [chan |-> TRUE, dtype |-> "float32", vals |-> <<a, b>>] :
             a \in Volumes({2, 8}), b \in {Const(5), Const(8)} }
    \cup { [chan |-> TRUE, dtype |-> "float32", vals |-> <<a, b, c>>] :
             a \in Volumes({2, 8}), b \in {Const(5)}, c \in {Const(2), Const(8)} }
    \cup { [chan |-> FALSE, dtype |-> "float32", vals |-> <<a>>] :
             a \in {Const(5), [v \in Voxels |-> IF v = 1 THEN 8 ELSE 2]} }

BytePreds ==
    { [chan |-> c, dtype |-> "uint8", vals |-> <<a>>] :
        c \in BOOLEAN, a \in {[v \in Voxels |-> IF v = 1 THEN 20 ELSE 0]} }

Preds == FloatPreds \cup BytePreds

NoPred == [chan |-> FALSE, dtype |-> None, vals |-> <<>>]

NumChannels(t) == Len(t.vals)

\* torch.argmax(pred, dim=0) at one voxel: the first channel holding the maximum,
\* counted from 0
ArgMaxAt(t, v) ==
    LET best == CHOOSE c \in 1..Len(t.vals) :
                    /\ \A d \in 1..Len(t.vals) : t.vals[d][v] <= t.vals[c][v]
                    /\ \A d \in 1..(c - 1) : t.vals[d][v] < t.vals[c][v]
    IN  best - 1

\* runner.py _prepare_pred
PreparePredMultiArgmax(t) ==
    [chan |-> FALSE, dtype |-> "int64",
     vals |-> << [v \in Voxels |-> Tenths(ArgMaxAt(t, v))] >>]

PreparePred(t, probs) ==
    IF t.chan
        THEN IF probs
                THEN [t EXCEPT !.dtype = "float32"]
                ELSE IF NumChannels(t) = 1
                        THEN [chan |-> FALSE, dtype |-> t.dtype, vals |-> <<t.vals[1]>>]
                        ELSE PreparePredMultiArgmax(t)
        ELSE t

\* (pred_arr > 0.5).astype(np.uint8)
Threshold(a) ==
    [a EXCEPT !.dtype = "uint8",
              !.vals = [c \in 1..Len(a.vals) |->
                          [v \in Voxels |-> IF a.vals[c][v] > 5 THEN Tenths(1) ELSE 0]]]

\* io_utils.py to_uint8_mask
ToUint8Mask(a) == IF a.dtype = "uint8" THEN a ELSE [a EXCEPT !.dtype = "uint8"]

\* runner.py lines 143-148: the array handed to save_nifti
PersistedArray(t, probs) ==
    LET arr == PreparePred(t, probs)
    IN  IF probs THEN arr
        ELSE IF arr.dtype # "uint8" THEN Threshold(arr) ELSE ToUint8Mask(arr)

(***************************************************************************)
(* run_inference                                                           *)
(***************************************************************************)
MaxInputs == 3

\* image paths: a directory and a file name
NameA == <<"a">>
NameB == <<"b">>
InputPaths ==
    { [dir |-> "d1", name |-> NameA \o NIIGZ],
      [dir |-> "d1", name |-> NameA \o NII],
      [dir |-> "d2", name |-> NameB \o NIIGZ] }

InputLists == UNION { [1..n -> InputPaths] : n \in 0..MaxInputs }

\* runner.py _infer_output_path; the result is the file name under output_dir
InferOutputName(image_path, suffix) ==
    LET name == image_path.name
        base == IF EndsWith(name, NIIGZ) THEN DropLast(name, 7)
                ELSE IF EndsWith(name, NII) THEN DropLast(name, 4)
                ELSE name
    IN  base \o suffix \o NIIGZ

Suffix == IF save_probs THEN PROB ELSE SEG

NoExc == [stage |-> None, item |-> 0]

\* labels_dir after line 133: usable or None, and the label files it holds
NoLabelsDir == [usable |-> FALSE, files |-> {}]
LabelDirs ==
    { NoLabelsDir }
    \cup { [usable |-> TRUE, files |-> f] :
              f \in { {NameA \o NIIGZ}, {NameB \o SEG \o NIIGZ} } }

\* the label volumes load_nifti returns
LabelVolumes == {Const(10), [v \in Voxels |-> IF v = 1 THEN 10 ELSE 0]}

\* the metadata predict_volume returns with a prediction: what its affine and
\* original_affine keys hold
NoMeta == [affine |-> Absent, original_affine |-> Absent]
Metas == [affine : {Absent, Null, "A"}, original_affine : {Absent, Null, "B"}]

NoFrame == [affine |-> None, header |-> None]

\* a mutant: the prediction's metadata wins over the reference image
FrameOfMetaFirst(m, reference) ==
    IF m.affine \notin {Absent, Null} THEN [affine |-> m.affine, header |-> None]
    ELSE IF m.original_affine \notin {Absent, Null}
        THEN [affine |-> m.original_affine, header |-> None]
    ELSE IF reference THEN [affine |-> "reference", header |-> "reference"]
    ELSE [affine |-> "image", header |-> "image"]

\* lines 149-163: the affine and header handed to save_nifti
FrameOf(m, reference) ==
    LET affine == IF m.affine \notin {Absent, Null} THEN m.affine
                  ELSE IF m.original_affine \notin {Absent, Null} THEN m.original_affine
                  ELSE None
    IN  IF reference THEN [affine |-> "reference", header |-> "reference"]
        ELSE IF affine = None THEN [affine |-> "image", header |-> "image"]
        ELSE [affine |-> affine, header |-> None]

\* dice_scores.csv: the header line and the rows
NoCsv == [header |-> <<>>, rows |-> <<>>]
CsvHeader == <<"image", "dice", "hausdorff95">>
StaleCsv == [header |-> CsvHeader,
             rows |-> <<[name |-> <<"o", "l", "d">>, dice |-> 0, h |-> <<>>, cols |-> 3]>>]

\* the predictor built at line 136: the predictions and metadata it can return
NoPredictor == [preds |-> {}, metas |-> {}]

RunIdle ==
    /\ inputs = <<>> /\ save_probs = FALSE /\ labels = NoLabelsDir /\ hausdorff = FALSE /\ pc = "idle"
    /\ idx = 0 /\ pred = NoPred /\ lastArr = NoPred /\ outfiles = [n \in {} |-> 0]
    /\ written = <<>> /\ metrics = <<>> /\ exc = NoExc /\ report = None
    /\ csv = NoCsv /\ predictor = NoPredictor /\ reference_image = FALSE
    /\ meta = NoMeta /\ frame = NoFrame /\ stdout = NoCsv

\* the state at runner.py line 138: bundle resolved, predictor built, inputs resolved
RunInitOver(lists, dirs, predictors, references) ==
    /\ inputs \in lists
    /\ save_probs \in BOOLEAN
    /\ labels \in dirs
    /\ hausdorff \in BOOLEAN
    /\ predictor \in predictors
    /\ reference_image \in references
    /\ meta = NoMeta
    /\ frame = NoFrame
    /\ pc = "predict"
    /\ idx = 1
    /\ pred = NoPred
    /\ lastArr = NoPred
    /\ outfiles = [n \in {} |-> 0]
    /\ written = <<>>
    /\ metrics = <<>>
    /\ exc = NoExc
    /\ report \in {None, "stale"}
    /\ csv = IF report = "stale" THEN StaleCsv ELSE NoCsv
    /\ stdout = NoCsv

\* runs with labels: every prediction, no metadata, no reference image
RunInit ==
    RunInitOver(InputLists, LabelDirs, {[preds |-> Preds, metas |-> {NoMeta}]}, {FALSE})

RunFrame == UNCHANGED <<inputs, save_probs, labels, hausdorff, predictor, reference_image,
                        dhVars, tmVars, rbVars, bpVars, riVars, dsVars, cliVars, webVars>>

\* line 141: predictor.predict_volume returns
PredictOk ==
    /\ pc = "predict" /\ idx <= Len(inputs)
    /\ pred' \in predictor.preds
    /\ meta' \in predictor.metas
    /\ pc' = "write"
    /\ RunFrame
    /\ UNCHANGED <<idx, lastArr, outfiles, written, metrics, exc, report, csv, stdout, frame>>

\* a mutant: per-item isolation, the loop goes on with the next input
ItemRaisesIsolated(stage) ==
    /\ exc' = [stage |-> stage, item |-> idx]
    /\ pc' = "predict"
    /\ idx' = idx + 1
    /\ pred' = NoPred
    /\ lastArr' = NoPred
    /\ meta' = NoMeta
    /\ frame' = NoFrame
    /\ RunFrame
    /\ UNCHANGED <<outfiles, written, metrics, report, csv, stdout>>

\* an exception inside the loop body: nothing catches it, run_inference ends
\* and its locals are gone
ItemRaises(stage) ==
    /\ exc' = [stage |-> stage, item |-> idx]
    /\ pc' = "raised"
    /\ pred' = NoPred
    /\ lastArr' = NoPred
    /\ meta' = NoMeta
    /\ frame' = NoFrame
    /\ RunFrame
    /\ UNCHANGED <<idx, outfiles, written, metrics, report, csv, stdout>>

\* line 141: predictor.predict_volume raises
PredictRaises ==
    /\ pc = "predict" /\ idx <= Len(inputs)
    /\ ItemRaises("predict")

\* lines 142-164: output path, array, spatial frame, save_nifti
WriteOk ==
    /\ pc = "write"
    /\ LET out == InferOutputName(inputs[idx], Suffix)
       IN  /\ lastArr' = PersistedArray(pred, save_probs)
           /\ frame' = FrameOf(meta, reference_image)
           /\ outfiles' = [n \in DOMAIN outfiles \cup {out} |->
                              IF n = out THEN idx ELSE outfiles[n]]
           /\ written' = Append(written, idx)
    /\ pc' = "metrics"
    /\ RunFrame
    /\ UNCHANGED <<idx, pred, meta, metrics, exc, report, csv, stdout>>

\* lines 143-164: _prepare_pred, nib.load of the frame or save_nifti raises
WriteRaises ==
    /\ pc = "write"
    /\ \E stage \in {"prepare", "frame", "save"} : ItemRaises(stage)

\* metrics.py dice_score on two masks: (2 * inter + eps) / (sum + eps), kept as
\* the two counts
DiceCounts(p, l) ==
    [inter |-> Cardinality({v \in Voxels : p[v] > 5 /\ l[v] > 5}),
     sum |-> Cardinality({v \in Voxels : p[v] > 5}) + Cardinality({v \in Voxels : l[v] > 5})]

\* a mutant: any file of the labels directory pairs with the image
HasLabelAnyFile(image_path) == labels.usable /\ labels.files # {}

\* lines 166-170: is there a label file paired with the image
HasLabel(image_path) ==
    /\ labels.usable
    /\ \/ InferOutputName(image_path, <<>>) \in labels.files
       \/ InferOutputName(image_path, SEG) \in labels.files

NextItem ==
    /\ idx' = idx + 1
    /\ pc' = "predict"
    /\ pred' = NoPred
    /\ lastArr' = NoPred
    /\ meta' = NoMeta
    /\ frame' = NoFrame

\* lines 166-170: no labels directory or no label file for the image
MetricsSkip ==
    /\ pc = "metrics"
    /\ ~HasLabel(inputs[idx])
    /\ NextItem
    /\ RunFrame
    /\ UNCHANGED <<outfiles, written, metrics, exc, report, csv, stdout>>

\* lines 171-178: the label loads, a record is appended. A prediction array that
\* kept its channel dimension never has the label's shape, and dice_score raises.
MetricsRecord ==
    /\ pc = "metrics"
    /\ HasLabel(inputs[idx])
    /\ ~lastArr.chan
    /\ \E l \in LabelVolumes :
          metrics' = Append(metrics,
                            [name |-> inputs[idx].name,
                             d |-> DiceCounts(lastArr.vals[1], l),
                             h |-> IF hausdorff THEN <<0>> ELSE <<>>])
    /\ NextItem
    /\ RunFrame
    /\ UNCHANGED <<outfiles, written, exc, report, csv, stdout>>

\* lines 171-177: load_nifti, Resize or compute_metrics raises
MetricsRaises ==
    /\ pc = "metrics"
    /\ HasLabel(inputs[idx])
    /\ ItemRaises("metrics")

\* f"{d:.4f}" of a dice value, in ten-thousandths. dice_score is
\* (2 * inter + eps) / (sum + eps) with eps = 1e-6: 1 when both masks are empty, and
\* else within 1e-6 of 2 * inter / sum, which never lies that close to a rounding
\* boundary for masks of this size.
Fmt4(num, den) == (20000 * num + den) \div (2 * den)

DiceFraction(d) ==
    IF d.sum = 0 THEN [num |-> 1, den |-> 1] ELSE [num |-> 2 * d.inter, den |-> d.sum]

\* sum(m[1] for m in metrics), as a fraction
RECURSIVE SumOfDice(_)
SumOfDice(ms) ==
    IF ms = <<>> THEN [num |-> 0, den |-> 1]
    ELSE LET a == DiceFraction(ms[1].d)
             b == SumOfDice(Tail(ms))
         IN  [num |-> a.num * b.den + b.num * a.den, den |-> a.den * b.den]

\* a mutant: the mean row is left out
ReportCsvNoMean(ms) ==
    [header |-> CsvHeader,
     rows |-> [i \in 1..Len(ms) |->
                  [name |-> ms[i].name,
                   dice |-> Fmt4(DiceFraction(ms[i].d).num, DiceFraction(ms[i].d).den),
                   h |-> ms[i].h, cols |-> 3]]]

\* lines 181-187: the lines written to dice_scores.csv
ReportCsv(ms) ==
    LET total == SumOfDice(ms)
    IN  [header |-> CsvHeader,
         rows |-> [i \in 1..Len(ms) |->
                      [name |-> ms[i].name,
                       dice |-> Fmt4(DiceFraction(ms[i].d).num, DiceFraction(ms[i].d).den),
                       h |-> ms[i].h, cols |-> 3]]
                  \o <<[name |-> <<"mean_dice">>,
                        dice |-> Fmt4(total.num, total.den * Len(ms)),
                        h |-> <<>>, cols |-> 3]>>]

\* lines 188-193: the lines printed after the report is written; the last one is
\* f"mean_dice,{mean_dice:.4f}", two fields and no trailing comma
ReportEcho(ms) ==
    LET total == SumOfDice(ms)
    IN  [header |-> CsvHeader,
         rows |-> [i \in 1..Len(ms) |->
                      [name |-> ms[i].name,
                       dice |-> Fmt4(DiceFraction(ms[i].d).num, DiceFraction(ms[i].d).den),
                       h |-> ms[i].h, cols |-> 3]]
                  \o <<[name |-> <<"mean_dice">>,
                        dice |-> Fmt4(total.num, total.den * Len(ms)),
                        h |-> <<>>, cols |-> 2]>>]

\* a mutant: a stale report is left in place
ReportedKeepsStale(r, ms) == IF ms # <<>> THEN "written" ELSE r

\* lines 180-195: is there a report after the run
Reported(r, ms) == IF ms # <<>> THEN "written" ELSE None

\* lines 180-195: the report is written, or a stale one removed
Report ==
    /\ pc = "predict" /\ idx > Len(inputs)
    /\ report' = Reported(report, metrics)
    /\ csv' = IF metrics # <<>> THEN ReportCsv(metrics) ELSE NoCsv
    /\ stdout' = IF metrics # <<>> THEN ReportEcho(metrics) ELSE NoCsv
    /\ pc' = "done"
    /\ RunFrame
    /\ UNCHANGED <<idx, pred, lastArr, outfiles, written, metrics, exc, meta, frame>>

\* str.lower over the letters of the file names used here
LowerChar(c) ==
    CASE c = "N" -> "n" [] c = "I" -> "i" [] c = "G" -> "g" [] c = "Z" -> "z"
      [] c = "C" -> "c" [] OTHER -> c

Lower(s) == [i \in 1..Len(s) |-> LowerChar(s[i])]

\* runner.py _is_nifti
IsNifti(name) == EndsWith(Lower(name), NII) \/ EndsWith(Lower(name), NIIGZ)

\* runs without labels: a few predictions, every metadata, with and without a
\* reference image, file names with lower and upper case extensions and a name
\* that is no volume
WritePaths ==
    { [dir |-> "d1", name |-> NameA \o NIIGZ],
      [dir |-> "d1", name |-> NameB \o NII],
      [dir |-> "d1", name |-> <<"c", ".", "N", "I", "I">>],
      [dir |-> "d1", name |-> <<"n", ".", "t", "x", "t">>] }

WriteLists == UNION { [1..n -> WritePaths] : n \in 0..MaxInputs }

WritePreds ==
    { [chan |-> TRUE, dtype |-> "float32", vals |-> <<Const(8)>>],
      [chan |-> TRUE, dtype |-> "float32", vals |-> <<Const(2), Const(8)>>] }

WriteInit ==
    RunInitOver(WriteLists, {NoLabelsDir}, {[preds |-> WritePreds, metas |-> Metas]}, BOOLEAN)

(***************************************************************************)
(* Claims about run_inference                                              *)
(***************************************************************************)
\* the integer label map of a multi-channel prediction
ArgMaxLabelMap(t) == << [v \in Voxels |-> Tenths(ArgMaxAt(t, v))] >>

\* the squeezed single channel thresholded at 0.5
ThresholdedMask(t) == << [v \in Voxels |-> IF t.vals[1][v] > 5 THEN Tenths(1) ELSE 0] >>

\* C1: the inputs are processed in order without per-item isolation: once
\* predict_volume, the array preparation, the spatial frame or the write of input k
\* has raised, run_inference has ended with that exception, the inputs 1..k-1 and no
\* others have been written, and no file of the output directory comes from input k
\* or a later one.
C1_FailFast ==
    (exc # NoExc /\ exc.stage \in {"predict", "prepare", "frame", "save"}) =>
        /\ pc = "raised"
        /\ written = [j \in 1..(exc.item - 1) |-> j]
        /\ \A n \in DOMAIN outfiles : outfiles[n] < exc.item

\* C1 witness: three inputs, the first written, the write of the second raised
C1_Witness ==
    /\ pc = "raised" /\ exc.stage = "save" /\ exc.item = 2
    /\ Len(inputs) = 3 /\ written = <<1>>

\* C2 (as claimed): right after the write of an input, the persisted array is the
\* unchanged tensor when probabilities are requested, and else the arg-max label map
\* of a multi-channel prediction, or the single channel thresholded at 0.5 as an
\* unsigned byte mask.
C2_PersistedArrayAsClaimed ==
    (pc = "metrics" /\ pred.chan) =>
        IF save_probs
            THEN lastArr.vals = pred.vals /\ lastArr.chan
            ELSE IF NumChannels(pred) > 1
                    THEN lastArr.vals = ArgMaxLabelMap(pred)
                    ELSE lastArr.vals = ThresholdedMask(pred) /\ lastArr.dtype = "uint8"

\* C16: the spatial frame of every written item is the reference image's affine
\* and header when a reference image is supplied; else the affine of the
\* prediction's metadata, else its original_affine (the first that is not null);
\* else the affine and header of the source image.
C16_FramePriority ==
    pc = "metrics" =>
        IF reference_image
            THEN frame = [affine |-> "reference", header |-> "reference"]
        ELSE IF meta.affine \notin {Absent, Null}
            THEN frame.affine = meta.affine
        ELSE IF meta.original_affine \notin {Absent, Null}
            THEN frame.affine = meta.original_affine
        ELSE frame = [affine |-> "image", header |-> "image"]

\* C16 witness: no reference image, a null affine, the original_affine is used
C16_Witness ==
    /\ pc = "metrics" /\ ~reference_image
    /\ meta = [affine |-> Null, original_affine |-> "B"]
    /\ frame.affine = "B"

\* the file name without its .nii / .nii.gz extension, for a name _is_nifti accepts
Stem(name) ==
    IF EndsWith(Lower(name), NIIGZ) THEN DropLast(name, Len(NIIGZ)) ELSE DropLast(name, Len(NII))

\* C17 (as claimed): for every input whose name the directory scan accepts as a
\* volume, the file written is <stem>_prob.nii.gz when probabilities are requested
\* and <stem>_seg.nii.gz otherwise, <stem> being the name without its .nii or
\* .nii.gz extension.
C17_OutputNameAsClaimed ==
    (pc = "metrics" /\ IsNifti(inputs[idx].name)) =>
        LET out == Stem(inputs[idx].name) \o (IF save_probs THEN PROB ELSE SEG) \o NIIGZ
        IN  out \in DOMAIN outfiles /\ outfiles[out] = idx

\* C19: after a run that went through, dice_scores.csv exists exactly when the run
\* made at least one metric record: it then holds this run's rows, and a report
\* left by an earlier run is gone when the run made none.
C19_ReportIffRecords ==
    pc = "done" =>
        /\ report # None <=> metrics # <<>>
        /\ metrics # <<>> => report = "written" /\ csv # StaleCsv /\ csv # NoCsv
        /\ metrics = <<>> => report = None /\ csv = NoCsv

\* C19 witness: a run with a usable labels directory that paired no input
C19_Witness ==
    /\ pc = "done" /\ labels.usable /\ Len(inputs) = 2
    /\ metrics = <<>> /\ report = None /\ csv = NoCsv

\* C21: when run_inference writes a metrics report, the lines echoed to standard
\* output are, line for line, the content written to the CSV file: same header,
\* same rows in the same order, same trailing mean_dice row.
C21_EchoAsClaimed ==
    (pc = "done" /\ report = "written") => stdout = csv

\* C22: metric computation never aborts a run_inference batch: a case whose label
\* file exists but fails to load, or whose shapes still differ after resampling, is
\* skipped without a record and the batch goes on with the next input.
C22_MetricsNeverAbortAsClaimed ==
    ~(pc = "raised" /\ exc.stage = "metrics")

\* the labels directory is usable and holds <stem>.nii.gz or <stem>_seg.nii.gz
LabelNamed(name) ==
    /\ labels.usable
    /\ \/ Stem(name) \o <<".", "n", "i", "i", ".", "g", "z">> \in labels.files
       \/ Stem(name) \o <<"_", "s", "e", "g", ".", "n", "i", "i", ".", "g", "z">>
              \in labels.files

\* C23: a metric record is made for an input only when a usable labels directory
\* holds <stem>.nii.gz or else <stem>_seg.nii.gz; in every other case the input is
\* skipped for metrics without an error, its output stays written and the loop
\* moves on to the next input.
C23_SilentSkip ==
    /\ [](\A i \in 1..Len(metrics) : LabelNamed(metrics[i].name))
    /\ [][(pc = "metrics" /\ ~LabelNamed(inputs[idx].name)) =>
             /\ pc' = "predict" /\ idx' = idx + 1
             /\ exc' = NoExc /\ metrics' = metrics
             /\ written' = written /\ written[Len(written)] = idx
             /\ outfiles' = outfiles /\ \E n \in DOMAIN outfiles : outfiles[n] = idx]_vars

\* C23 witness: three inputs written, the second paired with a label, the first and
\* the third skipped
C23_Witness ==
    /\ pc = "done" /\ labels.usable /\ Len(inputs) = 3 /\ written = <<1, 2, 3>>
    /\ Len(metrics) = 1 /\ metrics[1].name = inputs[2].name
    /\ inputs[1].name # inputs[2].name /\ inputs[3].name # inputs[2].name

\* C29: a run that went through over n pairwise distinct input paths leaves n
\* distinct output files, one per input: no write replaces the file of another
\* input of the run.
C29_DistinctOutputsAsClaimed ==
    (pc = "done" /\ \A i, j \in 1..Len(inputs) : i # j => inputs[i] # inputs[j]) =>
        /\ Cardinality(DOMAIN outfiles) = Len(inputs)
        /\ \A k \in 1..Len(inputs) : \E n \in DOMAIN outfiles : outfiles[n] = k

\* m, in ten-thousandths, is num / den rounded to four decimals
Rounds(m, num, den) ==
    LET diff == 2 * den * m - 20000 * num
    IN  -den <= diff /\ diff <= den

\* C20: for a run with n >= 1 metric records the CSV is the header
\* image,dice,hausdorff95 followed by n + 1 rows: one row per record in the order
\* the inputs were processed (name, dice, hausdorff or blank) and a last row
\* mean_dice,<value>, whose value is the arithmetic mean of the n dice values.
C20_CsvRows ==
    (pc = "done" /\ metrics # <<>>) =>
        LET n == Len(metrics)
            paired == SelectSeq(inputs, HasLabel)
            total == SumOfDice(metrics)
        IN  /\ csv.header = <<"image", "dice", "hausdorff95">>
            /\ Len(csv.rows) = n + 1
            /\ n = Len(paired)
            /\ \A i \in 1..n :
                  /\ csv.rows[i].name = paired[i].name
                  /\ Rounds(csv.rows[i].dice, DiceFraction(metrics[i].d).num,
                            DiceFraction(metrics[i].d).den)
                  /\ csv.rows[i].h = metrics[i].h
                  /\ csv.rows[i].cols = 3
            /\ csv.rows[n + 1].name = <<"mean_dice">>
            /\ Rounds(csv.rows[n + 1].dice, total.num, total.den * n)
            /\ csv.rows[n + 1].h = <<>>
            /\ csv.rows[n + 1].cols = 3

\* C20 witness: two records, dice 1.0000 and 0.6667, mean 0.8333
C20_Witness ==
    /\ pc = "done" /\ Len(metrics) = 2 /\ Len(csv.rows) = 3
    /\ csv.rows[1].dice = 10000 /\ csv.rows[2].dice = 6667 /\ csv.rows[3].dice = 8333

(***************************************************************************)
(* make_dice_helper_compat (monai_compat.py)                               *)
(***************************************************************************)
KwNames == {"threshold", "sigmoid", "activate", "ignore_empty"}
KwValues == BOOLEAN
ArgLists == {<<>>, <<"y_pred">>}

\* a keyword dictionary: a function from some of the names to values
Dicts == UNION { [d -> KwValues] : d \in SUBSET KwNames }

EmptyDict == [k \in {} |-> FALSE]

Pop(m, k) == [x \in DOMAIN m \ {k} |-> m[x]]

Put(m, k, v) == [x \in DOMAIN m \cup {k} |-> IF x = k THEN v ELSE m[x]]

\* a wrapped class: the named parameters of __init__, whether it takes **kwargs,
\* and whether inspect.signature can read it
DiceClasses == [params : SUBSET KwNames, varkw : BOOLEAN, inspectable : BOOLEAN]

\* _dice_helper_params
DiceHelperParams(cls) == IF cls.inspectable THEN cls.params ELSE {}

\* lines 67-70: the three probes
Supports(cls) ==
    [threshold |-> "threshold" \in DiceHelperParams(cls),
     sigmoid |-> "sigmoid" \in DiceHelperParams(cls),
     activate |-> "activate" \in DiceHelperParams(cls)]

\* a mutant: activate is tried before sigmoid
MapThresholdActivateFirst(sup, mapped) ==
    IF "threshold" \in DOMAIN mapped /\ ~sup.threshold
        THEN LET threshold_value == mapped["threshold"]
                 popped == Pop(mapped, "threshold")
             IN  IF sup.activate /\ "activate" \notin DOMAIN popped
                    THEN Put(popped, "activate", threshold_value)
                 ELSE IF sup.sigmoid /\ "sigmoid" \notin DOMAIN popped
                    THEN Put(popped, "sigmoid", threshold_value)
                 ELSE popped
        ELSE mapped

\* lines 78-83
MapThreshold(sup, mapped) ==
    IF "threshold" \in DOMAIN mapped /\ ~sup.threshold
        THEN LET threshold_value == mapped["threshold"]
                 popped == Pop(mapped, "threshold")
             IN  IF sup.sigmoid /\ "sigmoid" \notin DOMAIN popped
                    THEN Put(popped, "sigmoid", threshold_value)
                 ELSE IF sup.activate /\ "activate" \notin DOMAIN popped
                    THEN Put(popped, "activate", threshold_value)
                 ELSE popped
        ELSE mapped

\* lines 85-86
MapSigmoid(sup, mapped) ==
    IF "sigmoid" \in DOMAIN mapped /\ ~sup.sigmoid /\ sup.threshold
        THEN Put(Pop(mapped, "sigmoid"), "threshold", mapped["sigmoid"])
        ELSE mapped

\* lines 76-86: the keyword arguments the wrapped constructor is called with
MapKwargs(sup, kwargs) == MapSigmoid(sup, MapThreshold(sup, kwargs))

\* the wrapped constructor: an instance, or TypeError on a keyword it does not take
Construct(cls, kwargs) ==
    IF cls.varkw \/ DOMAIN kwargs \subseteq cls.params
        THEN [kind |-> "instance", cls |-> cls]
        ELSE [kind |-> "TypeError", cls |-> cls]

NoSupports == [threshold |-> FALSE, sigmoid |-> FALSE, activate |-> FALSE]
NoClass == [params |-> {}, varkw |-> FALSE, inspectable |-> FALSE]
NoCall == [args |-> <<>>, sent |-> <<>>, given |-> EmptyDict, mapped |-> EmptyDict,
           result |-> [kind |-> None, cls |-> NoClass]]

DhIdle ==
    /\ dhClass = NoClass /\ dhSupports = NoSupports /\ dhPc = "idle"
    /\ dhCall = NoCall

DhInit ==
    /\ dhClass \in DiceClasses
    /\ dhSupports = NoSupports
    /\ dhPc = "new"
    /\ dhCall = NoCall

\* make_dice_helper_compat(dice_helper_cls): the probes are taken once
MakeDiceHelperCompat ==
    /\ dhPc = "new"
    /\ dhSupports' = Supports(dhClass)
    /\ dhPc' = "made"
    /\ UNCHANGED <<dhClass, dhCall, runVars, tmVars, rbVars, bpVars, riVars, dsVars, cliVars, webVars>>

\* _NeuroTKCompatDiceHelper.__new__(cls, *args, **kwargs)
CompatNew ==
    /\ dhPc \in {"made", "called"}
    /\ \E args \in ArgLists, kwargs \in Dicts :
          LET mapped == MapKwargs(dhSupports, kwargs)
          IN  dhCall' = [args |-> args, sent |-> args, given |-> kwargs,
                         mapped |-> mapped,
                         result |-> Construct(dhClass, mapped)]
    /\ dhPc' = "called"
    /\ UNCHANGED <<dhClass, dhSupports, runVars, tmVars, rbVars, bpVars, riVars, dsVars, cliVars, webVars>>

(***************************************************************************)
(* Claims about make_dice_helper_compat                                    *)
(***************************************************************************)
Given(k) == k \in DOMAIN dhCall.given
Sent(k) == k \in DOMAIN dhCall.mapped
Forwarded(k) == Sent(k) /\ dhCall.mapped[k] = dhCall.given[k]
\* the value given as k reaches the constructor as t, a name the call left free
Carried(k, t) == ~Given(t) /\ Sent(t) /\ dhCall.mapped[t] = dhCall.given[k]
Accepts(k) == k \in DiceHelperParams(dhClass)

NoValueDropped ==
    \A k \in DOMAIN dhCall.given :
        \/ Forwarded(k)
        \/ k = "threshold" /\ (Carried(k, "sigmoid") \/ Carried(k, "activate"))
        \/ k = "sigmoid" /\ Carried(k, "threshold")

\* C3 (as claimed): a call that supplies threshold or sigmoid to a class accepting
\* neither that name nor any remap target hands the constructor the original keyword
\* arguments, and no call loses the value of a supplied keyword.
C3_NoSilentDrop ==
    dhPc = "called" =>
        /\ (Given("threshold") /\ ~Accepts("threshold") /\ ~Accepts("sigmoid")
                /\ ~Accepts("activate")) => dhCall.mapped = dhCall.given
        /\ (Given("sigmoid") /\ ~Given("threshold") /\ ~Accepts("sigmoid")
                /\ ~Accepts("threshold")) => dhCall.mapped = dhCall.given
        /\ NoValueDropped

\* sigmoid is moved onto threshold (class takes threshold, not sigmoid)
SigmoidRemapped == Given("sigmoid") /\ ~Accepts("sigmoid") /\ Accepts("threshold")
\* threshold is taken out of the call (class does not take threshold)
ThresholdRemoved == Given("threshold") /\ ~Accepts("threshold")

Target == "RandScaleIntensityFixedMeand"
Candidates ==
    << "RandScaleIntensityFixedMeanD",
       "RandScaleIntensityFixedMeanDict",
       "RandScaleIntensityFixedMean" >>

AttrNames == {Target, Candidates[1], Candidates[2], Candidates[3], "Compose"}
Objects == {"obj1", "obj2"}

\* a module: its attributes and the objects they are bound to
Modules == UNION { [d -> Objects] : d \in SUBSET AttrNames }

HasAttr(m, name) == name \in DOMAIN m

\* lines 118-122: the message of the ValueError, in pieces (the symbol is quoted
\* with backticks in the source)
NoTransformMessage ==
    << "MONAI transform compatibility error: bundle import expects ",
       "RandScaleIntensityFixedMeand",
       ", but no compatible transform was found in installed MONAI. ",
       "Install a supported MONAI release (recommended: ",
       ">=1.3,<1.6",
       ")." >>

NoResult == [kind |-> None, target |-> None, alias |-> None, message |-> <<>>]

\* a mutant: nothing is raised when no alias exists
NoCompatibleTransformSilent(m) ==
    [module |-> m, result |-> [NoResult EXCEPT !.kind = "return None"]]

\* lines 118-122
NoCompatibleTransform(m) ==
    [module |-> m,
     result |-> [NoResult EXCEPT !.kind = "ValueError", !.message = NoTransformMessage]]

\* a mutant: the scan keeps going, the last alias present wins
BindFirstCandidateLastWins(m, i) ==
    LET present == {j \in 1..Len(Candidates) : HasAttr(m, Candidates[j])}
    IN  IF present = {} THEN NoCompatibleTransform(m)
        ELSE LET j == CHOOSE x \in present : \A y \in present : y <= x
             IN  [module |-> Put(m, Target, m[Candidates[j]]),
                  result |-> [NoResult EXCEPT !.kind = "pair", !.target = Target,
                                              !.alias = Candidates[j]]]

\* lines 113-116: the loop over the candidates, from candidate i on
RECURSIVE BindFirstCandidate(_, _)
BindFirstCandidate(m, i) ==
    IF i > Len(Candidates) THEN NoCompatibleTransform(m)
    ELSE IF HasAttr(m, Candidates[i])
        THEN [module |-> Put(m, Target, m[Candidates[i]]),
              result |-> [NoResult EXCEPT !.kind = "pair", !.target = Target,
                                          !.alias = Candidates[i]]]
        ELSE BindFirstCandidate(m, i + 1)

\* install_transform_compat(monai_transforms_module)
InstallTransformCompatResult(m) ==
    IF HasAttr(m, Target)
        THEN [module |-> m, result |-> [NoResult EXCEPT !.kind = "return None"]]
        ELSE BindFirstCandidate(m, 1)

TmIdle ==
    /\ tmModule = EmptyDict /\ tmPc = "idle" /\ tmBefore = EmptyDict
    /\ tmResult = NoResult

TmInit ==
    /\ tmModule \in Modules
    /\ tmBefore = tmModule
    /\ tmPc = "ready"
    /\ tmResult = NoResult

InstallTransformCompat ==
    /\ tmPc = "ready"
    /\ LET r == InstallTransformCompatResult(tmModule)
       IN  /\ tmModule' = r.module
           /\ tmResult' = r.result
    /\ tmPc' = "installed"
    /\ UNCHANGED <<tmBefore, runVars, dhVars, rbVars, bpVars, riVars, dsVars, cliVars, webVars>>

\* a later import of another bundle script installs again on the patched module
InstallAgain ==
    /\ tmPc = "installed"
    /\ tmResult.kind # "ValueError"
    /\ tmBefore' = tmModule
    /\ tmResult' = NoResult
    /\ tmPc' = "ready"
    /\ UNCHANGED <<tmModule, runVars, dhVars, rbVars, bpVars, riVars, dsVars, cliVars, webVars>>

(***************************************************************************)
(* Claims about install_transform_compat                                   *)
(***************************************************************************)
AliasesPresent == {j \in 1..Len(Candidates) : HasAttr(tmBefore, Candidates[j])}
FirstAlias == CHOOSE j \in AliasesPresent : \A k \in AliasesPresent : j <= k

\* C5: on a module without the target but with an accepted alias, the target is
\* bound to the object of the first alias present in the fixed order, the other
\* attributes stay as they were and (target, alias) is returned; on a module that
\* has the target, None is returned and the module is unchanged.
C5_AliasInstalled ==
    tmPc = "installed" =>
        /\ (~HasAttr(tmBefore, Target) /\ AliasesPresent # {}) =>
               /\ HasAttr(tmModule, Target)
               /\ tmModule[Target] = tmBefore[Candidates[FirstAlias]]
               /\ DOMAIN tmModule = DOMAIN tmBefore \cup {Target}
               /\ \A n \in DOMAIN tmBefore : tmModule[n] = tmBefore[n]
               /\ tmResult.kind = "pair"
               /\ tmResult.target = Target
               /\ tmResult.alias = Candidates[FirstAlias]
        /\ HasAttr(tmBefore, Target) =>
               tmResult.kind = "return None" /\ tmModule = tmBefore

\* C5 witness: two aliases bound to different objects, the first one was taken
C5_Witness ==
    /\ tmPc = "installed"
    /\ DOMAIN tmBefore = {Candidates[2], Candidates[3], "Compose"}
    /\ tmBefore[Candidates[2]] # tmBefore[Candidates[3]]
    /\ tmModule[Target] = tmBefore[Candidates[2]]
    /\ tmResult.alias = Candidates[2]

\* C6: on a module with neither the target nor an accepted alias the installation
\* raises (ValueError in the code), the message names the expected symbol and the
\* recommended version range, and the module is unchanged.
C6_NoAliasRaises ==
    (tmPc = "installed" /\ ~HasAttr(tmBefore, Target) /\ AliasesPresent = {}) =>
        /\ tmResult.kind = "ValueError"
        /\ \E i \in DOMAIN tmResult.message : tmResult.message[i] = Target
        /\ \E i \in DOMAIN tmResult.message : tmResult.message[i] = ">=1.3,<1.6"
        /\ tmModule = tmBefore

\* C6 witness: the module held only an unrelated attribute and the call raised
C6_Witness ==
    /\ tmPc = "installed"
    /\ DOMAIN tmBefore = {"Compose"}
    /\ tmResult.kind = "ValueError"

(***************************************************************************)
(* resolve_bundle_dir (config.py)                                          *)
(***************************************************************************)
HF == <<"h", "f", ":">>
HOST == <<"h", "u", "g", "g", "i", "n", "g", "f", "a", "c", "e", ".", "c", "o">>
Https1 == <<"h", "t", "t", "p", "s", ":", "/">>
Https2 == <<"h", "t", "t", "p", "s", ":", "/", "/">>
HostTypo == Https1 \o HOST \o <<"/">>
HostUrl == Https2 \o HOST \o <<"/">>

\* [A-Za-z0-9_.-]
IdChars ==
    { "a", "b", "c", "d", "e", "f", "g", "h", "i", "j", "k", "l", "m", "n", "o", "p",
      "q", "r", "s", "t", "u", "v", "w", "x", "y", "z", "A", "B", "Z", "0", "1", "9",
      "_", ".", "-" }

\* value.split("/")
RECURSIVE SplitFrom(_, _, _, _)
SplitFrom(s, i, cur, acc) ==
    IF i > Len(s) THEN Append(acc, cur)
    ELSE IF s[i] = "/" THEN SplitFrom(s, i + 1, <<>>, Append(acc, cur))
    ELSE SplitFrom(s, i + 1, Append(cur, s[i]), acc)

Split(s) == SplitFrom(s, 1, <<>>, <<>>)

NonEmpty(p) == p # <<>>

\* "/".join(parts)
RECURSIVE Join(_)
Join(parts) ==
    IF parts = <<>> THEN <<>>
    ELSE IF Len(parts) = 1 THEN parts[1]
    ELSE parts[1] \o <<"/">> \o Join(Tail(parts))

\* value.strip("/")
RECURSIVE LStrip(_)
LStrip(s) == IF s # <<>> /\ s[1] = "/" THEN LStrip(Tail(s)) ELSE s

RECURSIVE RStrip(_)
RStrip(s) == IF s # <<>> /\ s[Len(s)] = "/" THEN RStrip(DropLast(s, 1)) ELSE s

Strip(s) == LStrip(RStrip(s))

\* the index of the first character of s that is in cs, or Len(s) + 1
FirstOf(s, cs) ==
    IF \E i \in 1..Len(s) : s[i] \in cs
        THEN CHOOSE i \in 1..Len(s) : s[i] \in cs /\ \A j \in 1..(i - 1) : s[j] \notin cs
        ELSE Len(s) + 1

\* urlparse(value).path for a value that starts with https://huggingface.co/ : what
\* follows the host, up to the query or fragment, without the parameters of the
\* last segment
UrlPath(value) ==
    LET rest == DropFirst(value, Len(Https2 \o HOST))
        upto == SubSeq(rest, 1, FirstOf(rest, {"?", "#"}) - 1)
        slashes == {i \in 1..Len(upto) : upto[i] = "/"}
        lastSlash == CHOOSE i \in slashes : \A j \in slashes : j <= i
        semis == {i \in (lastSlash + 1)..Len(upto) : upto[i] = ";"}
    IN  IF semis = {} THEN upto
        ELSE SubSeq(upto, 1, (CHOOSE i \in semis : \A j \in semis : i <= j) - 1)

\* the length of the run of identifier characters of s that starts at i
RECURSIVE IdRun(_, _)
IdRun(s, i) == IF i <= Len(s) /\ s[i] \in IdChars THEN 1 + IdRun(s, i + 1) ELSE 0

\* _REPO_ID_RE.match(value)
RepoIdMatch(value) ==
    LET n == IdRun(value, 1)
        m == IdRun(value, n + 2)
    IN  /\ n >= 1
        /\ n + 1 <= Len(value) /\ value[n + 1] = "/"
        /\ m >= 1
        /\ n + 1 + m = Len(value)

NoRepoId == [found |-> FALSE, id |-> <<>>]
RepoId(x) == [found |-> TRUE, id |-> x]

\* lines 13-15
ParseHfPrefixed(value) ==
    LET repo_id == Strip(DropFirst(value, 3))
    IN  IF repo_id # <<>> THEN RepoId(repo_id) ELSE NoRepoId

\* a mutant: the last two path segments are taken
ParseHfUrlLastTwo(value) ==
    LET parts == SelectSeq(Split(UrlPath(value)), NonEmpty)
    IN  IF Len(parts) >= 2
            THEN RepoId(parts[Len(parts) - 1] \o <<"/">> \o parts[Len(parts)])
            ELSE NoRepoId

\* lines 19-23
ParseHfUrl(value) ==
    LET parts == SelectSeq(Split(UrlPath(value)), NonEmpty)
    IN  IF Len(parts) >= 2 THEN RepoId(parts[1] \o <<"/">> \o parts[2]) ELSE NoRepoId

\* _parse_hf_repo_id
ParseHfRepoId(value) ==
    IF StartsWith(value, HF) THEN ParseHfPrefixed(value)
    ELSE LET v == IF StartsWith(value, HostTypo) /\ ~StartsWith(value, HostUrl)
                    THEN Https2 \o DropFirst(value, Len(Https1))
                    ELSE value
         IN  IF StartsWith(v, HostUrl) /\ ParseHfUrl(v).found THEN ParseHfUrl(v)
             ELSE IF RepoIdMatch(v) THEN RepoId(v)
             ELSE NoRepoId

\* os.path.normpath on POSIX
RECURSIVE NormParts(_, _, _)
NormParts(comps, i, acc) ==
    IF i > Len(comps) THEN acc
    ELSE IF comps[i] = <<>> \/ comps[i] = <<".">> THEN NormParts(comps, i + 1, acc)
    ELSE IF comps[i] = <<".", ".">> /\ acc # <<>> /\ acc[Len(acc)] # <<".", ".">>
        THEN NormParts(comps, i + 1, DropLast(acc, 1))
    ELSE NormParts(comps, i + 1, Append(acc, comps[i]))

IsAbs(path) == StartsWith(path, <<"/">>)

NormPath(path) ==
    LET lead == IF StartsWith(path, <<"/", "/">>) /\ ~StartsWith(path, <<"/", "/", "/">>)
                    THEN <<"/", "/">>
                ELSE IF IsAbs(path) THEN <<"/">>
                ELSE <<>>
        comps == NormParts(Split(path), 1, <<>>)
        kept == IF lead # <<>> /\ comps # <<>> /\ comps[1] = <<".", ".">>
                    THEN SelectSeq(comps, LAMBDA c : c # <<".", ".">>)
                    ELSE comps
        body == lead \o Join(kept)
    IN  IF body = <<>> THEN <<".">> ELSE body

\* the working directory of the process
Cwd == <<"/", "w">>

\* os.path.abspath
AbsPath(path) == NormPath(IF IsAbs(path) THEN path ELSE Cwd \o <<"/">> \o path)

\* the directory snapshot_download returns for a repository
CacheDir(repo_id) == <<"/", "c", "a", "c", "h", "e", "/">> \o repo_id

NoResolve == [kind |-> None, path |-> <<>>]

RbIdle ==
    /\ rbRef = <<>> /\ rbFs = "absent" /\ rbPc = "idle" /\ rbResult = NoResolve
    /\ rbDownloads = <<>>

\* references: a prefix, a body and a tail
Org == <<"o", "r", "g">>
Mod == <<"m", "_", "1">>
Segs == {Org, Mod}
OrgRepo(o, m) == o \o <<"/">> \o m

RefPrefixes ==
    { <<>>, HF, HostUrl, HostTypo, <<"h", "t", "t", "p", ":", "/", "/">> \o HOST \o <<"/">>,
      <<"/">>, <<".", "/">> }
RefBodies ==
    { <<>>, Org, OrgRepo(Org, Mod), OrgRepo(Mod, Org), <<"/">> \o OrgRepo(Org, Mod),
      Org \o <<"/", "/">> \o Mod, OrgRepo(Org, Mod) \o <<"/">> \o Org,
      <<"o", " ", "g", "/">> \o Mod }
RefTails ==
    { <<>>, <<"/">>, <<"/", "/">>, <<"/", "t", "/", "m">>, <<"?", "x">>, <<";", "p">>,
      <<"#", "f">> }
Refs == { p \o b \o t : p \in RefPrefixes, b \in RefBodies, t \in RefTails }

\* what the reference names on the local file system
FsKinds(ref) ==
    IF ref = <<>> THEN {"absent"}
    ELSE IF ref[Len(ref)] = "/" THEN {"absent", "dir"}
    ELSE {"absent", "file", "dir"}

RbInit ==
    /\ rbRef \in Refs
    /\ rbFs \in FsKinds(rbRef)
    /\ rbPc = "call"
    /\ rbResult = NoResolve
    /\ rbDownloads = <<>>

\* resolve_bundle_dir(bundle_dir); _download_hf_repo returns the cache directory or
\* raises (huggingface_hub missing, or snapshot_download fails)
ResolveBundleDir ==
    /\ rbPc = "call"
    /\ LET bundle_dir == IF rbFs # "absent" THEN AbsPath(rbRef) ELSE rbRef
           repo == ParseHfRepoId(bundle_dir)
       IN  IF rbFs = "dir"
              THEN /\ rbResult' = [kind |-> "dir", path |-> bundle_dir]
                   /\ UNCHANGED rbDownloads
           ELSE IF repo.found
              THEN /\ rbDownloads' = Append(rbDownloads, repo.id)
                   /\ \/ rbResult' = [kind |-> "cache", path |-> CacheDir(repo.id)]
                      \/ rbResult' = [kind |-> "DownloadError", path |-> repo.id]
           ELSE /\ rbResult' = [kind |-> "FileNotFoundError", path |-> bundle_dir]
                /\ UNCHANGED rbDownloads
    /\ rbPc' = "done"
    /\ UNCHANGED <<rbRef, rbFs, runVars, dhVars, tmVars, bpVars, riVars, dsVars, cliVars, webVars>>

(***************************************************************************)
(* Claims about resolve_bundle_dir                                         *)
(***************************************************************************)
\* the references C7 names for the identifier o/m
ShortForms(o, m) == { HF \o OrgRepo(o, m) \o t : t \in {<<>>, <<"/">>, <<"/", "/">>} }
UrlForms(o, m) == { u \o OrgRepo(o, m) \o t : u \in {HostUrl, HostTypo}, t \in RefTails }

\* C7: a reference that names an existing local directory is answered with the
\* absolute path of that directory and nothing is downloaded; a reference that
\* does not exist locally and is hf:o/m (with trailing slashes), a
\* https://huggingface.co/o/m URL (also with one slash after https:, also with
\* more path, a query or a fragment) or the bare o/m is downloaded under exactly o/m.
C7_Normalize ==
    rbPc = "done" =>
        /\ rbFs = "dir" =>
               /\ rbResult.kind = "dir" /\ IsAbs(rbResult.path) /\ rbDownloads = <<>>
               /\ \A o \in Segs, m \in Segs :
                     /\ rbRef = <<"/">> \o OrgRepo(o, m) => rbResult.path = rbRef
                     /\ rbRef = OrgRepo(o, m) => rbResult.path = Cwd \o <<"/">> \o rbRef
        /\ rbFs = "absent" =>
               \A o \in Segs, m \in Segs :
                   rbRef \in ShortForms(o, m) \cup UrlForms(o, m) \cup {OrgRepo(o, m)} =>
                       rbDownloads = << OrgRepo(o, m) >>

\* C7 witness: a URL with one slash after https: and more path was downloaded
C7_Witness ==
    /\ rbPc = "done"
    /\ rbRef = HostTypo \o OrgRepo(Org, Mod) \o <<"/", "t", "/", "m">>
    /\ rbDownloads = << OrgRepo(Org, Mod) >>
    /\ rbResult.kind = "cache"

\* org/repo: two non-empty segments of identifier characters
IsOrgRepo(x) ==
    \E i \in 2..(Len(x) - 1) :
        x[i] = "/" /\ \A j \in (1..Len(x)) \ {i} : x[j] \in IdChars

\* the three reference forms of the resolver
FormShort(ref) == StartsWith(ref, HF) /\ IsOrgRepo(RStrip(DropFirst(ref, 3)))
FormUrl(ref) ==
    \/ StartsWith(ref, HostUrl)
          /\ Len(SelectSeq(Split(UrlPath(ref)), NonEmpty)) >= 2
    \/ StartsWith(ref, HostTypo)
          /\ Len(SelectSeq(Split(UrlPath(Https2 \o DropFirst(ref, Len(Https1)))), NonEmpty)) >= 2
FormBare(ref) == IsOrgRepo(ref)

\* C28: whenever resolve_bundle_dir calls the download, the key it passes has the
\* form org/repo, two non-empty segments of [A-Za-z0-9_.-], for every reference,
\* also for every string that starts with hf:.
C28_DownloadKeyAsClaimed ==
    \A i \in 1..Len(rbDownloads) : IsOrgRepo(rbDownloads[i])

\* C8 (as claimed): a reference that is no existing local directory and has none of
\* the three forms fails with an error that names it, and nothing is downloaded.
C8_UnrecognizedFails ==
    (rbPc = "done" /\ rbFs # "dir"
        /\ ~FormShort(rbRef) /\ ~FormUrl(rbRef) /\ ~FormBare(rbRef)) =>
            /\ rbResult.kind = "FileNotFoundError"
            /\ rbResult.path \in {rbRef, AbsPath(rbRef)}
            /\ rbDownloads = <<>>

(***************************************************************************)
(* BundlePredictor.__init__ (predictor.py). Paths are sequences of names   *)
(* and "/" separators.                                                     *)
(***************************************************************************)
\* os.path.join(a, b)
OsJoin(a, b) ==
    IF IsAbs(b) THEN b
    ELSE IF a = <<>> \/ a[Len(a)] = "/" THEN a \o b
    ELSE a \o <<"/">> \o b

\* os.path.relpath(path, start)
RelPath(path, start) ==
    LET a == SelectSeq(Split(AbsPath(path)), NonEmpty)
        b == SelectSeq(Split(AbsPath(start)), NonEmpty)
        same == {k \in 0..Len(a) : k <= Len(b) /\ SubSeq(a, 1, k) = SubSeq(b, 1, k)}
        k == CHOOSE x \in same : \A y \in same : y <= x
        ups == [i \in 1..(Len(b) - k) |-> <<".", ".">>]
        rel == ups \o SubSeq(a, k + 1, Len(a))
    IN  IF rel = <<>> THEN <<".">> ELSE Join(rel)

\* os.path.basename
BaseName(path) == LET parts == Split(path) IN parts[Len(parts)]

ConfigNames == <<"inference.yaml", "inference.json", "evaluate.yaml", "evaluate.json">>
HyperParameters == "hyper_parameters.yaml"
CheckpointCandidates ==
    << <<"models", "/", "best_metric_model.pt">>,
       <<"models", "/", "model_final.pt">>,
       <<"models", "/", "model.pt">> >>
SegmenterPy == <<"scripts", "/", "segmenter.py">>

ConfigPath(name) == <<"configs", "/", name>>

\* the files of a bundle, relative to its root
ConfigFileSets ==
    { { ConfigPath(n) : n \in ns } :
        ns \in SUBSET {ConfigNames[1], ConfigNames[2], ConfigNames[3], ConfigNames[4],
                       HyperParameters} }
ModelFileSets ==
    { { CheckpointCandidates[i] : i \in is } : is \in SUBSET (1..Len(CheckpointCandidates)) }
BundleFileSets ==
    { c \cup m \cup g : c \in ConfigFileSets, m \in ModelFileSets,
                        g \in {{}, {SegmenterPy}} }

Exists(bundle_dir, files, path) ==
    \E f \in files : AbsPath(OsJoin(bundle_dir, f)) = AbsPath(path)

NoPath == [set |-> FALSE, path |-> <<>>]
SomePath(x) == [set |-> TRUE, path |-> x]

CkptPaths ==
    { <<"w.pt">>, <<".", ".", "/", "shared", "/", "w.pt">>, <<"/", "data", "/", "w.pt">> }

\* the `checkpoint` entry of a config: is it declared and what it holds (a null
\* value is NoPath)
CheckpointEntries ==
    { [has |-> c.set \/ n, value |-> c] :
        c \in {NoPath, SomePath(<<"ck", "/", "w.pt">>), SomePath(<<"/", "opt", "/", "w.pt">>)},
        n \in BOOLEAN }

\* the parsed config: its `checkpoint` entry, and are `inferer`, `preprocessing`
\* and `postprocessing` declared
ConfigsOver(entries, chains) ==
    { [hasCheckpoint |-> e.has, checkpoint |-> e.value, hasInferer |-> i,
       hasPre |-> pre, hasPost |-> post] :
        e \in entries, i \in BOOLEAN, pre \in chains, post \in chains }

Configs == ConfigsOver(CheckpointEntries, {FALSE})

NoConfig == [hasCheckpoint |-> FALSE, checkpoint |-> NoPath, hasInferer |-> FALSE,
             hasPre |-> FALSE, hasPost |-> FALSE]

NoNet == [src |-> None, device |-> None, training |-> FALSE]
NoError == [type |-> None, message |-> None]

\* a mutant: hyper_parameters.yaml is looked for first
ResolveConfigFromReversed(bundle_dir, files, i) ==
    LET cfg_dir == OsJoin(bundle_dir, <<"configs">>)
    IN  IF Exists(bundle_dir, files, OsJoin(cfg_dir, <<HyperParameters>>))
            THEN SomePath(OsJoin(cfg_dir, <<HyperParameters>>))
        ELSE IF \E j \in 1..Len(ConfigNames) :
                    Exists(bundle_dir, files, OsJoin(cfg_dir, <<ConfigNames[j]>>))
            THEN LET j == CHOOSE x \in 1..Len(ConfigNames) :
                            /\ Exists(bundle_dir, files, OsJoin(cfg_dir, <<ConfigNames[x]>>))
                            /\ \A y \in 1..(x - 1) :
                                  ~Exists(bundle_dir, files, OsJoin(cfg_dir, <<ConfigNames[y]>>))
                 IN  SomePath(OsJoin(cfg_dir, <<ConfigNames[j]>>))
        ELSE NoPath

\* _resolve_config_file: the loop over the four names from name i on, then
\* hyper_parameters.yaml; NoPath stands for the FileNotFoundError of line 44
RECURSIVE ResolveConfigFrom(_, _, _)
ResolveConfigFrom(bundle_dir, files, i) ==
    LET cfg_dir == OsJoin(bundle_dir, <<"configs">>)
    IN  IF i <= Len(ConfigNames)
            THEN IF Exists(bundle_dir, files, OsJoin(cfg_dir, <<ConfigNames[i]>>))
                    THEN SomePath(OsJoin(cfg_dir, <<ConfigNames[i]>>))
                    ELSE ResolveConfigFrom(bundle_dir, files, i + 1)
        ELSE IF Exists(bundle_dir, files, OsJoin(cfg_dir, <<HyperParameters>>))
            THEN SomePath(OsJoin(cfg_dir, <<HyperParameters>>))
        ELSE NoPath

\* lines 100-105: the first conventional weights file that exists
RECURSIVE FirstCandidateFrom(_, _, _)
FirstCandidateFrom(bundle_dir, files, i) ==
    IF i > Len(CheckpointCandidates) THEN NoPath
    ELSE LET p == OsJoin(bundle_dir, CheckpointCandidates[i])
         IN  IF Exists(bundle_dir, files, p) THEN SomePath(p)
             ELSE FirstCandidateFrom(bundle_dir, files, i + 1)

\* a mutant: a checkpoint declared by the config overrides the argument
ResolveCheckpointConfigFirst(bundle_dir, files, ckpt_arg, cfg) ==
    LET declared == IF cfg.hasCheckpoint THEN cfg.checkpoint ELSE ckpt_arg
        found == IF ~declared.set THEN FirstCandidateFrom(bundle_dir, files, 1)
                 ELSE declared
    IN  IF found.set /\ ~IsAbs(found.path)
            THEN SomePath(AbsPath(OsJoin(bundle_dir, found.path)))
            ELSE found

\* lines 97-109: the checkpoint path; NoPath stands for the FileNotFoundError of
\* line 109
ResolveCheckpoint(bundle_dir, files, ckpt_arg, cfg) ==
    LET declared == IF cfg.hasCheckpoint /\ ~ckpt_arg.set THEN cfg.checkpoint ELSE ckpt_arg
        found == IF ~declared.set THEN FirstCandidateFrom(bundle_dir, files, 1)
                 ELSE declared
    IN  IF found.set /\ ~IsAbs(found.path)
            THEN SomePath(AbsPath(OsJoin(bundle_dir, found.path)))
            ELSE found

\* line 111
ModelFile(bundle_dir, ckpt_path) ==
    IF IsAbs(ckpt_path) THEN ckpt_path ELSE RelPath(ckpt_path, bundle_dir)

\* _get_device
GetDevice(device, cuda) ==
    IF device # None THEN device ELSE IF cuda THEN "cuda:0" ELSE "cpu"

DefaultInferer == [kind |-> "SlidingWindowInferer", roi_size |-> <<96, 96, 96>>,
                   sw_batch_size |-> 1, overlap |-> 25]
ConfigInferer == [kind |-> "config", roi_size |-> <<>>, sw_batch_size |-> 0, overlap |-> 0]
NoInferer == [kind |-> None, roi_size |-> <<>>, sw_batch_size |-> 0, overlap |-> 0]

\* a record handed to a chain or to the segmenter: what its image, label and pred
\* keys hold
Tensor == "tensor"
NoRecord == [image |-> Absent, label |-> Absent, pred |-> Absent]
NoOut == [kind |-> None, by |-> None]

BpIdle ==
    /\ bpBundle = <<>> /\ bpFiles = {} /\ bpCkptArg = NoPath /\ bpDeviceArg = None
    /\ bpCfg = NoConfig /\ bpPc = "idle" /\ bpConfigFile = NoPath
    /\ bpSegmenter = FALSE /\ bpLoads = <<>> /\ bpNet = NoNet
    /\ bpPre = FALSE /\ bpPost = FALSE
    /\ bpInferer = NoInferer /\ bpError = NoError /\ bpLog = <<>>
    /\ bpImage = None /\ bpCalls = <<>> /\ bpOut = NoOut

\* BundlePredictor(bundle_dir, device, ckpt_path), lines 18-22
BpInitOver(files, ckpt_args, cfgs) ==
    /\ bpBundle = AbsPath(<<"bundle", "/">>)
    /\ bpFiles \in files
    /\ bpCkptArg \in ckpt_args
    /\ bpDeviceArg = None
    /\ bpCfg \in cfgs
    /\ bpPc = "new"
    /\ bpConfigFile = NoPath
    /\ bpSegmenter = FALSE
    /\ bpLoads = <<>>
    /\ bpNet = NoNet
    /\ bpPre = FALSE /\ bpPost = FALSE
    /\ bpInferer = NoInferer
    /\ bpError = NoError
    /\ bpLog = <<>>
    /\ bpImage = None /\ bpCalls = <<>> /\ bpOut = NoOut

\* construction over every bundle layout, checkpoint argument and checkpoint entry
BpInit == BpInitOver(BundleFileSets, {NoPath} \cup {SomePath(x) : x \in CkptPaths}, Configs)

BpFrame == UNCHANGED <<bpBundle, bpFiles, bpCkptArg, bpDeviceArg, bpCfg,
                       bpImage, bpCalls, bpOut,
                       runVars, dhVars, tmVars, rbVars, riVars, dsVars, cliVars, webVars>>

\* lines 23-24: the config file is found and read
ResolveConfigFile ==
    /\ bpPc = "new"
    /\ LET r == ResolveConfigFrom(bpBundle, bpFiles, 1)
       IN  /\ bpConfigFile' = r
           /\ bpPc' = IF r.set THEN "config" ELSE "failed"
           /\ bpError' = IF r.set THEN NoError
                         ELSE [type |-> "FileNotFoundError",
                               message |-> "No inference/evaluate config found in bundle configs/"]
    /\ BpFrame
    /\ UNCHANGED <<bpSegmenter, bpLoads, bpNet, bpPre, bpPost, bpInferer, bpLog>>

\* an entry of the construction log: a call and how it ended
Did(call, result) == [call |-> call, result |-> result]

\* line 53-56: the scripted path is taken
Scripted ==
    /\ BaseName(bpConfigFile.path) = <<HyperParameters>>
    /\ Exists(bpBundle, bpFiles, OsJoin(OsJoin(bpBundle, <<"scripts">>), <<"segmenter.py">>))

\* lines 57-87: the bundle's Segmenter is imported and built
LoadScripted ==
    /\ bpPc = "config" /\ Scripted
    /\ bpSegmenter' = TRUE
    /\ bpPc' = "ready"
    /\ bpLog' = <<Did("prepare_bundle_import_compat", "ok"), Did("Segmenter", "ok")>>
    /\ BpFrame
    /\ UNCHANGED <<bpConfigFile, bpLoads, bpNet, bpPre, bpPost, bpInferer, bpError>>

\* lines 59-86: the compatibility shim, the import or the constructor raises
LoadScriptedRaises ==
    /\ bpPc = "config" /\ Scripted
    /\ bpError' = [type |-> "ValueError", message |-> "MONAI API mismatch"]
    /\ bpPc' = "failed"
    /\ \E at \in {"prepare_bundle_import_compat", "import", "Segmenter"} :
          bpLog' = IF at = "prepare_bundle_import_compat"
                      THEN <<Did(at, "ValueError")>>
                      ELSE <<Did("prepare_bundle_import_compat", "ok"), Did(at, "ValueError")>>
    /\ BpFrame
    /\ UNCHANGED <<bpConfigFile, bpSegmenter, bpLoads, bpNet, bpPre, bpPost, bpInferer>>

\* lines 89-109: no checkpoint is found
LoadNoCheckpoint ==
    /\ bpPc = "config" /\ ~Scripted
    /\ ~ResolveCheckpoint(bpBundle, bpFiles, bpCkptArg, bpCfg).set
    /\ bpError' = [type |-> "FileNotFoundError",
                   message |-> "No checkpoint found in bundle models/"]
    /\ bpPc' = "failed"
    /\ bpLog' = <<Did("network", "ok")>>
    /\ BpFrame
    /\ UNCHANGED <<bpConfigFile, bpSegmenter, bpLoads, bpNet, bpPre, bpPost, bpInferer>>

\* how the engine answers during the declarative load: is an accelerator there,
\* does load return, how does the first load_state_dict end, does torch.load
\* return, does the raw checkpoint embed a network description, can the network
\* be rebuilt from it, does the second load_state_dict return. An answer that is
\* never asked for is held TRUE.
Outcomes ==
    { o \in [cuda : BOOLEAN, load : BOOLEAN, first : {"ok", "RuntimeError", "KeyError"},
             raw : BOOLEAN, embedded : BOOLEAN, rebuild : BOOLEAN, second : BOOLEAN] :
        /\ ~o.load => o.first = "ok"
        /\ o.first # "RuntimeError" => o.raw
        /\ ~o.raw => o.embedded
        /\ ~o.embedded => o.rebuild
        /\ ~o.rebuild => o.second }

NetFromConfig(device) == [src |-> "config", device |-> device, training |-> FALSE]
\* lines 131-133: the rebuilt network is moved to the device; eval() is not called
NetFromCheckpoint(device) == [src |-> "checkpoint", device |-> device, training |-> TRUE]

\* a mutant: the network built from the config is kept after the fallback
LoadStateKeepsConfigNet(o, device) ==
    IF o.first = "ok"
        THEN [ok |-> TRUE, net |-> NetFromConfig(device), error |-> NoError,
              log |-> <<Did("load_state_dict", "ok")>>]
    ELSE IF o.first # "RuntimeError"
        THEN [ok |-> FALSE, net |-> NoNet,
              error |-> [type |-> o.first, message |-> "load_state_dict first"],
              log |-> <<Did("load_state_dict", o.first)>>]
    ELSE IF ~o.raw
        THEN [ok |-> FALSE, net |-> NoNet,
              error |-> [type |-> "Exception", message |-> "torch.load"],
              log |-> <<Did("load_state_dict", "RuntimeError"), Did("torch.load", "Exception")>>]
    ELSE IF ~o.embedded
        THEN [ok |-> FALSE, net |-> NoNet,
              error |-> [type |-> "RuntimeError", message |-> "load_state_dict first"],
              log |-> <<Did("load_state_dict", "RuntimeError"), Did("torch.load", "ok"),
                        Did("config.network", "None")>>]
    ELSE IF ~o.rebuild
        THEN [ok |-> FALSE, net |-> NoNet,
              error |-> [type |-> "Exception", message |-> "rebuild"],
              log |-> <<Did("load_state_dict", "RuntimeError"), Did("torch.load", "ok"),
                        Did("config.network", "dict"), Did("rebuild", "Exception")>>]
    ELSE [ok |-> o.second,
          net |-> IF o.second THEN NetFromConfig(device) ELSE NoNet,
          error |-> IF o.second THEN NoError
                    ELSE [type |-> "RuntimeError", message |-> "load_state_dict second"],
          log |-> <<Did("load_state_dict", "RuntimeError"), Did("torch.load", "ok"),
                    Did("config.network", "dict"), Did("rebuild", "ok"),
                    Did("load_state_dict", IF o.second THEN "ok" ELSE "RuntimeError")>>]

\* lines 124-136: the non-strict load and its fallback
LoadState(o, device) ==
    IF o.first = "ok"
        THEN [ok |-> TRUE, net |-> NetFromConfig(device), error |-> NoError,
              log |-> <<Did("load_state_dict", "ok")>>]
    ELSE IF o.first # "RuntimeError"
        THEN [ok |-> FALSE, net |-> NoNet,
              error |-> [type |-> o.first, message |-> "load_state_dict first"],
              log |-> <<Did("load_state_dict", o.first)>>]
    ELSE IF ~o.raw
        THEN [ok |-> FALSE, net |-> NoNet,
              error |-> [type |-> "Exception", message |-> "torch.load"],
              log |-> <<Did("load_state_dict", "RuntimeError"), Did("torch.load", "Exception")>>]
    ELSE IF ~o.embedded
        THEN [ok |-> FALSE, net |-> NoNet,
              error |-> [type |-> "RuntimeError", message |-> "load_state_dict first"],
              log |-> <<Did("load_state_dict", "RuntimeError"), Did("torch.load", "ok"),
                        Did("config.network", "None")>>]
    ELSE IF ~o.rebuild
        THEN [ok |-> FALSE, net |-> NoNet,
              error |-> [type |-> "Exception", message |-> "rebuild"],
              log |-> <<Did("load_state_dict", "RuntimeError"), Did("torch.load", "ok"),
                        Did("config.network", "dict"), Did("rebuild", "Exception")>>]
    ELSE [ok |-> o.second,
          net |-> IF o.second THEN NetFromCheckpoint(device) ELSE NoNet,
          error |-> IF o.second THEN NoError
                    ELSE [type |-> "RuntimeError", message |-> "load_state_dict second"],
          log |-> <<Did("load_state_dict", "RuntimeError"), Did("torch.load", "ok"),
                    Did("config.network", "dict"), Did("rebuild", "ok"),
                    Did("load_state_dict", IF o.second THEN "ok" ELSE "RuntimeError")>>]

\* a mutant: the default inferer is always installed
InfererAlwaysDefault(cfg) == DefaultInferer

\* lines 145-149
Inferer(cfg) == IF cfg.hasInferer THEN ConfigInferer ELSE DefaultInferer

\* lines 89-151: the declarative path with a checkpoint
LoadDeclarative ==
    /\ bpPc = "config" /\ ~Scripted
    /\ LET ckpt_path == ResolveCheckpoint(bpBundle, bpFiles, bpCkptArg, bpCfg)
       IN  /\ ckpt_path.set
           /\ bpLoads' = <<ModelFile(bpBundle, ckpt_path.path)>>
    /\ \E o \in Outcomes :
          LET device == GetDevice(bpDeviceArg, o.cuda)
              r == IF o.load THEN LoadState(o, device)
                   ELSE [ok |-> FALSE, net |-> NoNet, log |-> <<>>,
                         error |-> [type |-> "Exception", message |-> "load"]]
          IN  /\ bpLog' = <<Did("network", "ok"),
                            Did("load", IF o.load THEN "ok" ELSE "Exception")>> \o r.log
              /\ bpPc' = IF r.ok THEN "ready" ELSE "failed"
              /\ bpNet' = r.net
              /\ bpPre' = (r.ok /\ bpCfg.hasPre)
              /\ bpPost' = (r.ok /\ bpCfg.hasPost)
              /\ bpInferer' = IF r.ok THEN Inferer(bpCfg) ELSE NoInferer
              /\ bpError' = r.error
    /\ BpFrame
    /\ UNCHANGED <<bpConfigFile, bpSegmenter>>

(***************************************************************************)
(* Claims about BundlePredictor construction                               *)
(***************************************************************************)
ConfigPriority == ConfigNames \o <<HyperParameters>>

PresentConfigs == {i \in 1..Len(ConfigPriority) : ConfigPath(ConfigPriority[i]) \in bpFiles}

InBundle(rel) == bpBundle \o <<"/">> \o rel

\* C9: for every combination of files present under <bundle>/configs,
\* _resolve_config_file returns the first existing file in the priority order
\* inference.yaml, inference.json, evaluate.yaml, evaluate.json,
\* hyper_parameters.yaml, and fails (FileNotFoundError, the spec's ConfigError)
\* when none of the five exists.
C9_ConfigPriority ==
    bpPc \notin {"idle", "new"} =>
        IF PresentConfigs = {}
            THEN /\ ~bpConfigFile.set
                 /\ bpPc = "failed"
                 /\ bpError.type = "FileNotFoundError"
                 /\ bpLoads = <<>> /\ ~bpSegmenter
            ELSE LET first == CHOOSE i \in PresentConfigs : \A j \in PresentConfigs : i <= j
                 IN  bpConfigFile = SomePath(InBundle(ConfigPath(ConfigPriority[first])))

C9_Witness ==
    /\ bpPc = "config"
    /\ PresentConfigs = {3, 4, 5}
    /\ bpConfigFile = SomePath(InBundle(ConfigPath("evaluate.yaml")))

PresentCandidates ==
    {i \in 1..Len(CheckpointCandidates) : CheckpointCandidates[i] \in bpFiles}

AgainstBundleRoot(path) == IF IsAbs(path) THEN path ELSE NormPath(InBundle(path))

DeclarativeDone ==
    /\ bpPc \in {"ready", "failed"}
    /\ bpConfigFile.set
    /\ ~(bpConfigFile.path = InBundle(ConfigPath(HyperParameters)) /\ SegmenterPy \in bpFiles)

\* C10: on the declarative path the checkpoint handed to the load step is the
\* explicit ckpt_path argument; else the checkpoint reference declared by the
\* config; else the first existing file among models/best_metric_model.pt,
\* models/model_final.pt, models/model.pt under the bundle; else construction
\* fails (FileNotFoundError, the spec's CheckpointError) without a load. The path
\* handed to the load step is absolute, a relative one being resolved against the
\* bundle root.
C10_CheckpointOrder ==
    DeclarativeDone =>
        IF bpCkptArg.set
            THEN bpLoads = <<AgainstBundleRoot(bpCkptArg.path)>> /\ IsAbs(bpLoads[1])
        ELSE IF bpCfg.hasCheckpoint /\ bpCfg.checkpoint.set
            THEN bpLoads = <<AgainstBundleRoot(bpCfg.checkpoint.path)>> /\ IsAbs(bpLoads[1])
        ELSE IF PresentCandidates # {}
            THEN LET first == CHOOSE i \in PresentCandidates :
                                 \A j \in PresentCandidates : i <= j
                 IN  bpLoads = <<InBundle(CheckpointCandidates[first])>> /\ IsAbs(bpLoads[1])
        ELSE /\ bpLoads = <<>>
             /\ bpPc = "failed"
             /\ bpError = [type |-> "FileNotFoundError",
                           message |-> "No checkpoint found in bundle models/"]

C10_Witness ==
    /\ bpPc = "ready"
    /\ DeclarativeDone
    /\ bpCkptArg = SomePath(<<".", ".", "/", "shared", "/", "w.pt">>)
    /\ bpCfg.checkpoint = SomePath(<<"/", "opt", "/", "w.pt">>)
    /\ PresentCandidates = {2, 3}
    /\ bpLoads = <<Cwd \o <<"/", "shared", "/", "w.pt">> >>

LoadStateCalls == SelectSeq(bpLog, LAMBDA e : e.call = "load_state_dict")

Logged(call, result) == \E i \in 1..Len(bpLog) : bpLog[i] = Did(call, result)

\* the first non-strict load raised the structural error
FirstStructural == LoadStateCalls # <<>> /\ LoadStateCalls[1].result = "RuntimeError"

\* C11: when the non-strict weight load raises a structural error the raw checkpoint
\* is read; if it embeds a network description the network is rebuilt from it, the
\* load is retried exactly once and the rebuilt network is the one kept; if it
\* embeds none the original error is raised again and construction fails; an error
\* of the retried load ends construction without a further retry. Without a
\* structural error the network of the config is kept and nothing is read.
C11_Fallback ==
    bpPc \in {"ready", "failed"} =>
        /\ Len(LoadStateCalls) <= 2
        /\ Len(LoadStateCalls) = 2 =>
               FirstStructural /\ Logged("config.network", "dict") /\ Logged("rebuild", "ok")
        /\ FirstStructural => \E i \in 1..Len(bpLog) : bpLog[i].call = "torch.load"
        /\ (FirstStructural /\ Logged("config.network", "dict") /\ Logged("rebuild", "ok")) =>
               /\ Len(LoadStateCalls) = 2
               /\ LoadStateCalls[2].result = "ok" =>
                      bpPc = "ready" /\ bpNet.src = "checkpoint"
               /\ LoadStateCalls[2].result # "ok" =>
                      /\ bpPc = "failed"
                      /\ bpError = [type |-> "RuntimeError",
                                    message |-> "load_state_dict second"]
        /\ (FirstStructural /\ Logged("config.network", "None")) =>
               /\ bpPc = "failed"
               /\ bpError = [type |-> "RuntimeError", message |-> "load_state_dict first"]
               /\ Len(LoadStateCalls) = 1
               /\ \A i \in 1..Len(bpLog) : bpLog[i].call # "rebuild"
        /\ (bpPc = "ready" /\ ~bpSegmenter /\ ~FirstStructural) =>
               /\ bpNet.src = "config"
               /\ \A i \in 1..Len(bpLog) : bpLog[i].call # "torch.load"

\* C11 witness: a construction that went through the rebuild and succeeded
C11_Witness ==
    /\ bpPc = "ready"
    /\ FirstStructural
    /\ Len(LoadStateCalls) = 2 /\ LoadStateCalls[2].result = "ok"
    /\ bpNet.src = "checkpoint"

\* C27: after every declarative construction that went through, also the one that
\* rebuilds the network in the fallback, the stored network is in evaluation mode
\* and on the device selected at construction.
C27_EvalModeAsClaimed ==
    (bpPc = "ready" /\ ~bpSegmenter) =>
        /\ ~bpNet.training
        /\ bpNet.device = IF bpDeviceArg # None THEN bpDeviceArg ELSE bpNet.device
        /\ bpNet.device \in {"cuda:0", "cpu"}

\* C12: on the declarative path a config without an `inferer` entry gives a
\* sliding-window inferer with region size (96,96,96), batch size 1 and overlap 0.25
\* (held in hundredths); a config declaring `inferer` gives the declared inferer and
\* not the default.
C12_DefaultInferer ==
    (bpPc = "ready" /\ ~bpSegmenter) =>
        IF bpCfg.hasInferer
            THEN bpInferer.kind = "config"
            ELSE bpInferer = [kind |-> "SlidingWindowInferer", roi_size |-> <<96, 96, 96>>,
                              sw_batch_size |-> 1, overlap |-> 25]

C12_Witness ==
    /\ bpPc = "ready" /\ ~bpSegmenter /\ ~bpCfg.hasInferer
    /\ bpInferer.roi_size = <<96, 96, 96>> /\ bpInferer.overlap = 25

(***************************************************************************)
(* BundlePredictor.predict_volume (predictor.py 153-205)                   *)
(***************************************************************************)
ImagePaths == {"a.nii.gz", "b.nii"}

Rec(image, label, prediction) == [image |-> image, label |-> label, pred |-> prediction]

\* an entry of the call log of one predict_volume: the callable, the record it was
\* given and whether it returned
Called(fn, rec, ok) == [fn |-> fn, rec |-> rec, ok |-> ok]

\* what a chain that returns does to the record it is given
Transforms == {"identity", "load", "load_image_drop_label"}

Apply(t, rec) ==
    CASE t = "identity" -> rec
      [] t = "load" ->
            [rec EXCEPT !.image = Tensor, !.label = IF @ = Absent THEN Absent ELSE Tensor]
      [] t = "load_image_drop_label" -> [rec EXCEPT !.image = Tensor, !.label = Absent]

\* how the chains and the inferer answer during one call: the preprocessing chain
\* on its first and second invocation (raise, or a transform), the inferer, the
\* postprocessing chain on its first and second invocation. An answer that is
\* never asked for is held fixed.
Behaviours ==
    { b \in [pre1 : {"raise"} \cup Transforms, pre2 : {"raise"} \cup Transforms,
             infer : BOOLEAN, post1 : BOOLEAN, post2 : BOOLEAN] :
        /\ b.pre1 # "raise" => b.pre2 = "identity"
        /\ (b.pre1 = "raise" /\ b.pre2 = "raise") => b.infer
        /\ ~b.infer => b.post1
        /\ b.post1 => b.post2 }

\* a mutant: a failing preprocessing chain is not tried again
RunPreNoRetry(pre, image_path, b) ==
    LET first == Rec(image_path, Absent, Absent)
    IN  IF ~pre THEN [ok |-> TRUE, data |-> first, calls |-> <<>>]
        ELSE IF b.pre1 # "raise"
            THEN [ok |-> TRUE, data |-> Apply(b.pre1, first),
                  calls |-> <<Called("pre", first, TRUE)>>]
        ELSE [ok |-> FALSE, data |-> first, calls |-> <<Called("pre", first, FALSE)>>]

\* lines 172-178
RunPre(pre, image_path, b) ==
    LET first == Rec(image_path, Absent, Absent)
        second == Rec(image_path, image_path, Absent)
    IN  IF ~pre THEN [ok |-> TRUE, data |-> first, calls |-> <<>>]
        ELSE IF b.pre1 # "raise"
            THEN [ok |-> TRUE, data |-> Apply(b.pre1, first),
                  calls |-> <<Called("pre", first, TRUE)>>]
        ELSE IF b.pre2 # "raise"
            THEN [ok |-> TRUE, data |-> Apply(b.pre2, second),
                  calls |-> <<Called("pre", first, FALSE), Called("pre", second, TRUE)>>]
        ELSE [ok |-> FALSE, data |-> second,
              calls |-> <<Called("pre", first, FALSE), Called("pre", second, FALSE)>>]

\* line 200: data["label"] = data.get("label", data["image"])
SyntheticLabel(data) ==
    [data EXCEPT !.label = IF data.label # Absent THEN data.label ELSE data.image]

\* lines 195-201
RunPost(post, data, b) ==
    LET first == [data EXCEPT !.pred = "pred"]
        second == SyntheticLabel(first)
    IN  IF ~post THEN [ok |-> TRUE, calls |-> <<>>]
        ELSE IF b.post1 THEN [ok |-> TRUE, calls |-> <<Called("post", first, TRUE)>>]
        ELSE [ok |-> b.post2,
              calls |-> <<Called("post", first, FALSE), Called("post", second, b.post2)>>]

\* lines 172-205: the declarative chain of one call
PredictChain(pre, post, image_path, b) ==
    LET p == RunPre(pre, image_path, b)
        q == RunPost(post, p.data, b)
    IN  IF ~p.ok THEN [ok |-> FALSE, calls |-> p.calls]
        ELSE IF ~b.infer
            THEN [ok |-> FALSE, calls |-> p.calls \o <<Called("inferer", p.data, FALSE)>>]
        ELSE [ok |-> q.ok, calls |-> p.calls \o <<Called("inferer", p.data, TRUE)>> \o q.calls]

\* a mutant: the scripted object is never delegated to
DelegatesNever(segmenter) == FALSE

\* line 154: self._segmenter is not None
Delegates(segmenter) == segmenter

PredictFrame ==
    UNCHANGED <<bpBundle, bpFiles, bpCkptArg, bpDeviceArg, bpCfg, bpConfigFile, bpSegmenter,
                bpLoads, bpNet, bpPre, bpPost, bpInferer, bpError, bpLog,
                runVars, dhVars, tmVars, rbVars, riVars, dsVars, cliVars, webVars>>

\* lines 154-170: the call is handed to the bundle's Segmenter
PredictScripted ==
    /\ bpPc \in {"ready", "predicted"}
    /\ Delegates(bpSegmenter)
    /\ \E image_path \in ImagePaths, ok \in BOOLEAN :
          /\ bpImage' = image_path
          /\ bpCalls' = <<Called("segmenter", Rec(image_path, Absent, Absent), ok)>>
          /\ bpOut' = [kind |-> IF ok THEN "returned" ELSE "raised", by |-> "segmenter"]
    /\ bpPc' = "predicted"
    /\ PredictFrame

\* lines 172-205: the call runs preprocessing, inferer and postprocessing
PredictDeclarative ==
    /\ bpPc \in {"ready", "predicted"}
    /\ ~Delegates(bpSegmenter)
    /\ \E image_path \in ImagePaths, b \in Behaviours :
          LET r == PredictChain(bpPre, bpPost, image_path, b)
          IN  /\ bpImage' = image_path
              /\ bpCalls' = r.calls
              /\ bpOut' = [kind |-> IF r.ok THEN "returned" ELSE "raised", by |-> "chain"]
    /\ bpPc' = "predicted"
    /\ PredictFrame

\* construction followed by predict_volume calls: every combination of config
\* files and of declared chains, with the conventional weights file in place or not
PipelineFileSets ==
    { c \cup m \cup g : c \in ConfigFileSets, m \in {{}, {CheckpointCandidates[3]}},
                        g \in {{}, {SegmenterPy}} }

PipelineInit ==
    BpInitOver(PipelineFileSets, {NoPath},
               ConfigsOver({[has |-> FALSE, value |-> NoPath]}, BOOLEAN))

(***************************************************************************)
(* Claims about predict_volume                                             *)
(***************************************************************************)
CallsOf(fn) == SelectSeq(bpCalls, LAMBDA c : c.fn = fn)

IndexesOf(fn) == {i \in 1..Len(bpCalls) : bpCalls[i].fn = fn}

\* C13: construction takes the scripted path exactly when the loaded config file is
\* hyper_parameters.yaml and scripts/segmenter.py is in the bundle, and the
\* declarative path otherwise; after a successful construction exactly one of the
\* scripted object and the declarative network is set; a predict_volume call goes
\* to the scripted object exactly when it is set, and then calls nothing of the
\* declarative chain.
C13_ExclusivePaths ==
    LET scripted == /\ bpConfigFile = SomePath(InBundle(ConfigPath(HyperParameters)))
                    /\ SegmenterPy \in bpFiles
    IN  /\ (bpPc \in {"ready", "predicted", "failed"} /\ bpConfigFile.set) =>
               /\ scripted <=> bpLog[1].call = "prepare_bundle_import_compat"
               /\ ~scripted <=> bpLog[1].call = "network"
        /\ bpPc \in {"ready", "predicted"} =>
               /\ bpSegmenter <=> scripted
               /\ bpSegmenter <=> bpNet = NoNet
        /\ bpPc = "predicted" =>
               IF bpSegmenter
                   THEN Len(bpCalls) = 1 /\ bpCalls[1].fn = "segmenter"
                        /\ bpOut.by = "segmenter"
                   ELSE IndexesOf("segmenter") = {} /\ bpOut.by = "chain"

\* C13 witness: hyper_parameters.yaml and segmenter.py, the call went to the Segmenter
C13_Witness ==
    /\ bpPc = "predicted" /\ bpSegmenter /\ bpNet = NoNet
    /\ PresentConfigs = {5} /\ SegmenterPy \in bpFiles
    /\ bpCfg.hasPre /\ bpCfg.hasPost
    /\ bpCalls = <<Called("segmenter", Rec(bpImage, Absent, Absent), TRUE)>>

\* a stage is invoked at most twice, a second time only after the first raised and
\* then with a label in the record; if that raises too the call raises
StageBounded(fn) ==
    LET calls == CallsOf(fn)
    IN  /\ Len(calls) <= 2
        /\ (Len(calls) >= 1 /\ calls[1].ok) => Len(calls) = 1
        /\ Len(calls) = 2 =>
               /\ ~calls[1].ok
               /\ calls[1].rec.label = Absent => calls[2].rec.label # Absent
               /\ calls[2].rec.label # Absent
               /\ ~calls[2].ok => bpOut.kind = "raised"
        /\ (Len(calls) = 1 /\ ~calls[1].ok) => FALSE

C15_SyntheticLabelAsClaimed ==
    (bpPc = "predicted" /\ ~bpSegmenter /\ Len(CallsOf("post")) = 2) =>
        LET posts == CallsOf("post")
        IN  posts[2].rec.label = IF posts[1].rec.label # Absent THEN posts[1].rec.label
                                 ELSE bpImage

(***************************************************************************)
(* _resolve_inputs (runner.py 19-47)                                       *)
(*                                                                         *)
(* The two arguments are each None or a path.  The list file, when given,  *)
(* is held by its lines (without the line terminator); the single path,    *)
(* when given, is missing, a file, or a directory held by its entries.  A  *)
(* sub-directory carries its own files, which iterdir() never yields.      *)
(***************************************************************************)
MaxLines == 3

NoArg == [given |-> FALSE, path |-> <<>>]
Arg(path) == [given |-> TRUE, path |-> path]

ListFile == <<"l", ".", "t", "x", "t">>
InputDir == <<"d1">>
InputFile == <<"d1", "/", "x", ".", "n", "i", "i">>
OtherFile == <<"d1", "/", "n", ".", "t", "x", "t">>
GonePath == <<"g", "o", "n", "e">>

\* the lines a list file can hold: paths, padded paths, blank lines
Lines ==
    { <<"a", ".", "n", "i", "i">>,
      <<" ", "b", ".", "n", "i", "i", " ">>,
      <<>>,
      <<" ", "\t">> }

LineSeqs == UNION {[1..n -> Lines] : n \in 0..MaxLines}

\* the entries a directory can hold
Entry(name, kind, inside) == [name |-> name, kind |-> kind, inside |-> inside]

Entries ==
    { Entry(<<"a", ".", "n", "i", "i", ".", "g", "z">>, "file", {}),
      Entry(<<"b", ".", "n", "i", "i">>, "file", {}),
      Entry(<<"B", ".", "N", "I", "I">>, "file", {}),
      Entry(<<"n", ".", "t", "x", "t">>, "file", {}),
      Entry(<<"s", ".", "n", "i", "i">>, "dir", {<<"a", "a", ".", "n", "i", "i">>}) }

NoFs == [kind |-> "missing", entries |-> {}]
NoLines == [exists |-> FALSE, lines |-> <<>>]
NoRaise == [kind |-> None, message |-> None]
NoResolved == [ok |-> FALSE, paths |-> <<>>, error |-> NoRaise]

RiIdle ==
    /\ riPath = NoArg
    /\ riList = NoArg
    /\ riFs = [path |-> NoFs, list |-> NoLines]
    /\ riPc = "idle"
    /\ riResult = NoResolved

RiInit ==
    /\ \E given \in BOOLEAN, kind \in {"missing", "file", "dir"}, es \in SUBSET Entries,
          other \in BOOLEAN :
          /\ kind # "dir" => es = {}
          /\ (~given \/ kind # "file") => ~other
          /\ riPath = IF ~given THEN NoArg
                      ELSE IF kind = "missing" THEN Arg(GonePath)
                      ELSE IF kind = "dir" THEN Arg(InputDir)
                      ELSE IF other THEN Arg(OtherFile) ELSE Arg(InputFile)
          /\ \E listed \in BOOLEAN, exists \in BOOLEAN, lines \in LineSeqs :
                /\ (~listed \/ ~exists) => lines = <<>>
                /\ ~listed => ~exists
                /\ riList = IF listed THEN Arg(ListFile) ELSE NoArg
                /\ riFs = [path |-> IF given THEN [kind |-> kind, entries |-> es] ELSE NoFs,
                           list |-> [exists |-> exists, lines |-> lines]]
    /\ riPc = "called"
    /\ riResult = NoResolved

Whitespace == {" ", "\t"}

\* line.strip()
RECURSIVE LStripSpace(_)
LStripSpace(s) == IF s # <<>> /\ s[1] \in Whitespace THEN LStripSpace(Tail(s)) ELSE s

RECURSIVE RStripSpace(_)
RStripSpace(s) ==
    IF s # <<>> /\ s[Len(s)] \in Whitespace THEN RStripSpace(SubSeq(s, 1, Len(s) - 1)) ELSE s

StripSpace(s) == LStripSpace(RStripSpace(s))

\* _read_input_list: the stripped lines that are not empty, in file order
RECURSIVE ReadInputList(_)
ReadInputList(lines) ==
    IF lines = <<>> THEN <<>>
    ELSE LET line == StripSpace(lines[1])
         IN  (IF line # <<>> THEN <<line>> ELSE <<>>) \o ReadInputList(Tail(lines))

\* the characters of the names, in code point order
CodeOrder == <<".", "B", "I", "N", "a", "b", "g", "i", "n", "s", "t", "x", "z">>

CodePoint(c) == CHOOSE i \in 1..Len(CodeOrder) : CodeOrder[i] = c

\* str.__lt__
RECURSIVE StrLess(_, _)
StrLess(s, t) ==
    IF t = <<>> THEN FALSE
    ELSE IF s = <<>> THEN TRUE
    ELSE IF s[1] # t[1] THEN CodePoint(s[1]) < CodePoint(t[1])
    ELSE StrLess(Tail(s), Tail(t))

\* the names in descending order
RECURSIVE SortedDescending(_)
SortedDescending(names) ==
    IF names = {} THEN <<>>
    ELSE LET last == CHOOSE x \in names : \A y \in names \ {x} : StrLess(y, x)
         IN  <<last>> \o SortedDescending(names \ {last})

\* sorted(files): the children of one directory compare by their names
RECURSIVE Sorted(_)
Sorted(names) ==
    IF names = {} THEN <<>>
    ELSE LET first == CHOOSE x \in names : \A y \in names \ {x} : StrLess(x, y)
         IN  <<first>> \o Sorted(names \ {first})

\* [p for p in input_path.iterdir() if p.is_file() and _is_nifti(p)]
VolumeFiles(entries) == {e.name : e \in {x \in entries : x.kind = "file" /\ IsNifti(x.name)}}

Raised(kind, message) ==
    [ok |-> FALSE, paths |-> <<>>, error |-> [kind |-> kind, message |-> message]]
Returned(paths) == [ok |-> TRUE, paths |-> paths, error |-> NoRaise]

\* _resolve_inputs(input_path, input_list) on the file system fs
ResolveInputsOf(input_path, input_list, fs) ==
    IF input_path.given /\ input_list.given
    THEN Raised("ValueError", "Provide either --input or --input_list, not both")
    ELSE IF input_list.given
    THEN IF fs.list.exists THEN Returned(ReadInputList(fs.list.lines))
         ELSE Raised("FileNotFoundError", "open")
    ELSE IF input_path.given
    THEN IF fs.path.kind = "missing"
         THEN Raised("ValueError", "Input path does not exist")
         ELSE IF fs.path.kind = "dir"
         THEN LET names == Sorted(VolumeFiles(fs.path.entries))
              IN  Returned([i \in 1..Len(names) |-> input_path.path \o <<"/">> \o names[i]])
         ELSE Returned(<<input_path.path>>)
    ELSE Raised("ValueError", "Provide --input or --input_list")

ResolveInputs ==
    /\ riPc = "called"
    /\ riResult' = ResolveInputsOf(riPath, riList, riFs)
    /\ riPc' = "done"
    /\ UNCHANGED <<riPath, riList, riFs, runVars, dhVars, tmVars, rbVars, bpVars, dsVars, cliVars, webVars>>

(***************************************************************************)
(* Claims about _resolve_inputs                                            *)
(***************************************************************************)
Blank(line) == \A k \in 1..Len(line) : line[k] \in Whitespace

\* C18: _resolve_inputs yields a list only when exactly one input form is given:
\* both forms, neither form and a single path that does not exist are errors; a
\* list file yields its non-blank lines in file order, a file path yields that one
\* path, and a directory yields only its direct child files with a recognized
\* volume extension, in lexicographic order.
C18_ResolveInputs ==
    riPc = "done" =>
        LET r == riResult
            kept == SelectSeq(riFs.list.lines, LAMBDA line : ~Blank(line))
            children == {riPath.path \o <<"/">> \o e.name :
                            e \in {x \in riFs.path.entries : x.kind = "file" /\ IsNifti(x.name)}}
        IN  /\ r.ok => (riPath.given /\ ~riList.given) \/ (~riPath.given /\ riList.given)
            /\ (riPath.given /\ riList.given) => ~r.ok /\ r.error.kind = "ValueError"
            /\ (~riPath.given /\ ~riList.given) => ~r.ok /\ r.error.kind = "ValueError"
            /\ (riPath.given /\ ~riList.given /\ riFs.path.kind = "missing") =>
                  ~r.ok /\ r.error.kind = "ValueError"
            /\ (riList.given /\ ~riPath.given /\ riFs.list.exists) =>
                  /\ r.ok
                  /\ Len(r.paths) = Len(kept)
                  /\ \A i \in 1..Len(kept) : r.paths[i] = StripSpace(kept[i])
            /\ (riPath.given /\ ~riList.given /\ riFs.path.kind = "file") =>
                  r.ok /\ r.paths = <<riPath.path>>
            /\ (riPath.given /\ ~riList.given /\ riFs.path.kind = "dir") =>
                  /\ r.ok
                  /\ {r.paths[i] : i \in 1..Len(r.paths)} = children
                  /\ Len(r.paths) = Cardinality(children)
                  /\ \A i, j \in 1..Len(r.paths) : i < j => StrLess(r.paths[i], r.paths[j])

\* C18 witness: a directory holding volumes with lower and upper case names, a
\* file that is no volume and a sub-directory named like a volume
C18_Witness ==
    /\ riPc = "done" /\ riPath.given /\ ~riList.given
    /\ riFs.path.kind = "dir" /\ riFs.path.entries = Entries
    /\ riResult.ok /\ Len(riResult.paths) = 3
    /\ riResult.paths[1] = InputDir \o <<"/", "B", ".", "N", "I", "I">>

(***************************************************************************)
(* dice_score (metrics.py 8-15)                                            *)
(*                                                                         *)
(* A mask is a tensor of zeros and ones with a shape.  The value           *)
(* (2 * intersection + epsilon) / (union + epsilon) is kept exactly, as    *)
(* numerator and denominator in millionths (epsilon = 1e-6 is one          *)
(* millionth); the rounding of the float32 arithmetic is not modelled.     *)
(***************************************************************************)
MaxMask == 3

Million == 1000000

RECURSIVE Product(_)
Product(shape) == IF shape = <<>> THEN 1 ELSE shape[1] * Product(Tail(shape))

Shapes == {<<n>> : n \in 0..MaxMask} \cup {<<1, 2>>, <<2, 1>>}

Masks == UNION {[shape : {sh}, vals : [1..Product(sh) -> {0, 1}]] : sh \in Shapes}

NoMask == [shape |-> <<0>>, vals |-> <<>>]
NoScore == [ok |-> FALSE, num |-> 0, den |-> 1, error |-> None]

DsIdle == dsPred = NoMask /\ dsTarget = NoMask /\ dsPc = "idle" /\ dsResult = NoScore

DsInit == dsPred \in Masks /\ dsTarget \in Masks /\ dsPc = "called" /\ dsResult = NoScore

\* torch.sum
RECURSIVE TorchSum(_)
TorchSum(vals) == IF vals = <<>> THEN 0 ELSE vals[1] + TorchSum(Tail(vals))

\* a mutant: epsilon is added to the denominator only
DiceScoreEpsilonBelow(p, t) ==
    IF p.shape # t.shape
    THEN [ok |-> FALSE, num |-> 0, den |-> 1, error |-> "ValueError"]
    ELSE LET intersection == TorchSum([i \in 1..Len(p.vals) |-> p.vals[i] * t.vals[i]])
             union == TorchSum(p.vals) + TorchSum(t.vals)
         IN  [ok |-> TRUE, num |-> 2 * intersection * Million,
              den |-> union * Million + 1, error |-> None]

\* dice_score(pred, target) with the default epsilon
DiceScore(p, t) ==
    IF p.shape # t.shape
    THEN [ok |-> FALSE, num |-> 0, den |-> 1, error |-> "ValueError"]
    ELSE LET intersection == TorchSum([i \in 1..Len(p.vals) |-> p.vals[i] * t.vals[i]])
             union == TorchSum(p.vals) + TorchSum(t.vals)
         IN  [ok |-> TRUE, num |-> 2 * intersection * Million + 1,
              den |-> union * Million + 1, error |-> None]

CallDiceScore ==
    /\ dsPc = "called"
    /\ dsResult' = DiceScore(dsPred, dsTarget)
    /\ dsPc' = "done"
    /\ UNCHANGED <<dsPred, dsTarget, runVars, dhVars, tmVars, rbVars, bpVars, riVars, cliVars, webVars>>

(***************************************************************************)
(* Claims about dice_score                                                 *)
(***************************************************************************)
\* C24: over two binary masks of equal shape dice_score is
\* (2|A n B| + eps) / (|A| + |B| + eps) with eps = 1e-6: 1.0 within 1e-6 for
\* identical non-empty masks, eps / (|A| + |B| + eps), which is above zero, for
\* disjoint non-empty masks, and within [0, 1] for every pair; masks of different
\* shape are rejected with an error.
C24_DiceScore ==
    dsPc = "done" =>
        LET A == {i \in 1..Len(dsPred.vals) : dsPred.vals[i] = 1}
            B == {i \in 1..Len(dsTarget.vals) : dsTarget.vals[i] = 1}
            r == dsResult
        IN  /\ dsPred.shape # dsTarget.shape => ~r.ok /\ r.error = "ValueError"
            /\ dsPred.shape = dsTarget.shape =>
                  /\ r.ok
                  /\ r.num = 2 * Cardinality(A \cap B) * 1000000 + 1
                  /\ r.den = (Cardinality(A) + Cardinality(B)) * 1000000 + 1
                  /\ 0 <= r.num /\ r.num <= r.den
                  /\ (A = B /\ A # {}) =>
                        (r.den - r.num) * 1000000 <= r.den /\ (r.num - r.den) * 1000000 <= r.den
                  /\ (A \cap B = {} /\ A # {} /\ B # {}) => r.num = 1 /\ r.num > 0

\* C24 witness: two disjoint non-empty masks of three voxels
C24_Witness ==
    /\ dsPc = "done" /\ dsResult.ok
    /\ dsPred = [shape |-> <<3>>, vals |-> <<1, 0, 0>>]
    /\ dsTarget = [shape |-> <<3>>, vals |-> <<0, 1, 1>>]
    /\ dsResult.num = 1 /\ dsResult.den = 3000001

(***************************************************************************)
(* cli.run (cli.py 193-199)                                                *)
(*                                                                         *)
(* _parse_args has returned a namespace with a command; each handler that  *)
(* cli.py defines is held by what a call of it does: return a value or     *)
(* raise SystemExit.                                                       *)
(***************************************************************************)
Commands == {"validate", "preprocess", "infer", "dice", "unknown"}

Returns(value) == [kind |-> "return", value |-> value, message |-> <<>>]
Exits(message) == [kind |-> "SystemExit", value |-> 0, message |-> message]

\* what a handler can do: the values the handlers of cli.py return, a value of
\* a stand-in handler, and a SystemExit of its own
HandlerOutcomes == {Returns(0), Returns(1), Returns(11), Exits(<<"not found">>)}

NoOutcome == [kind |-> None, value |-> 0, message |-> <<>>]

CliIdle ==
    /\ cliCommand = None
    /\ cliHandlers = [_run_validate |-> NoOutcome, _run_preprocess |-> NoOutcome]
    /\ cliPc = "idle"
    /\ cliCalled = <<>>
    /\ cliResult = NoOutcome

CliInit ==
    /\ cliCommand \in Commands
    /\ cliHandlers \in [_run_validate : HandlerOutcomes, _run_preprocess : HandlerOutcomes]
    /\ cliPc = "parsed"
    /\ cliCalled = <<>>
    /\ cliResult = NoOutcome

\* run(): the handlers called and the outcome
CliRunOf(command, handlers) ==
    IF command = "validate"
    THEN [called |-> <<"_run_validate">>, outcome |-> handlers._run_validate]
    ELSE IF command = "preprocess"
    THEN [called |-> <<"_run_preprocess">>, outcome |-> handlers._run_preprocess]
    ELSE [called |-> <<>>, outcome |-> Exits(<<"Unknown command: ", command>>)]

CliRun ==
    /\ cliPc = "parsed"
    /\ cliCalled' = CliRunOf(cliCommand, cliHandlers).called
    /\ cliResult' = CliRunOf(cliCommand, cliHandlers).outcome
    /\ cliPc' = "done"
    /\ UNCHANGED <<cliCommand, cliHandlers,
                   runVars, dhVars, tmVars, rbVars, bpVars, riVars, dsVars, webVars>>

(***************************************************************************)
(* Claims about cli.run                                                    *)
(***************************************************************************)
\* C25: cli.run() dispatches on the parsed subcommand: for validate, preprocess,
\* infer and dice it calls that subcommand's handler (_run_validate,
\* _run_preprocess, _run_infer, _run_dice) and returns the handler's return value;
\* for any other command it raises SystemExit with the message
\* Unknown command: <command>.
C25_DispatchAsClaimed ==
    cliPc = "done" =>
        LET handler == CASE cliCommand = "validate" -> "_run_validate"
                         [] cliCommand = "preprocess" -> "_run_preprocess"
                         [] cliCommand = "infer" -> "_run_infer"
                         [] cliCommand = "dice" -> "_run_dice"
                         [] OTHER -> None
        IN  IF handler # None
            THEN /\ cliCalled = <<handler>>
                 /\ handler \in DOMAIN cliHandlers =>
                       (cliHandlers[handler].kind = "return" => cliResult = cliHandlers[handler])
            ELSE /\ cliCalled = <<>>
                 /\ cliResult = Exits(<<"Unknown command: ", cliCommand>>)

(***************************************************************************)
(* The web wrapper's /run handler (webapp/main.py 84-118, 126-217)         *)
(*                                                                         *)
(* Requests are handled by threads of one process.  TMP_ROOT holds one     *)
(* directory per request (named by the request) and one left by an earlier *)
(* process (directory 0).  Time is counted in units of the TTL; a          *)
(* directory's mtime is set when it is made and when an entry is made in   *)
(* it.  flock locks belong to the open file, so the probe of a sweep and   *)
(* the lock of a request exclude each other inside the process as well.    *)
(***************************************************************************)
MaxClock == 2

Requests == {1, 2}
LeftDir == 0
DirIds == {LeftDir} \cup Requests

Spacings == {<<"1", " ", "1", " ", "1">>, <<"2", " ", "2", " ", "2">>}
Orientations == {"RAS", "LPS"}

\* a request's form: labels is the labels_files list (none, one item without a
\* file name, one named file)
Forms ==
    [mode : {"validate", "preprocess"}, spacing : Spacings, orientation : Orientations,
     images : BOOLEAN, labels : {"none", "blank", "one"}]

NoForm == [mode |-> None, spacing |-> <<>>, orientation |-> None,
           images |-> FALSE, labels |-> "none"]

NoDir == [exists |-> FALSE, mtime |-> 0, lockfile |-> FALSE]
NoSweep == [now |-> 0, todo |-> {}, cur |-> LeftDir, age |-> 0]
NoEnv == [custom |-> FALSE, spacing |-> <<>>, orientation |-> None, copy_metadata |-> None,
          labels_provided |-> None, labels_uploaded |-> 0]

WebIdle ==
    /\ wForm = [r \in Requests |-> NoForm]
    /\ wPc = [r \in Requests |-> "off"]
    /\ wDirs = [d \in DirIds |-> NoDir]
    /\ wLock = [d \in DirIds |-> 0]
    /\ wSweep = [r \in Requests |-> NoSweep]
    /\ wCmds = [r \in Requests |-> <<>>]
    /\ wSaved = [r \in Requests |-> 0]
    /\ wResp = [r \in Requests |-> 0]
    /\ wNow = 0
    /\ wTtl = 0
    /\ wRemoved = {}

\* the requests in active arrive with a form of forms; TMP_ROOT may hold a
\* directory left by an earlier process, with or without its lock file
WebInitOver(active, forms, ttls) ==
    /\ wForm \in [Requests -> forms \cup {NoForm}]
    /\ \A r \in Requests : wForm[r] = NoForm <=> r \notin active
    /\ wPc = [r \in Requests |-> IF r \in active THEN "new" ELSE "off"]
    /\ \E left \in BOOLEAN, lockfile \in BOOLEAN :
          /\ lockfile => left
          /\ wDirs = [d \in DirIds |->
                         IF d = LeftDir /\ left
                         THEN [exists |-> TRUE, mtime |-> 0, lockfile |-> lockfile]
                         ELSE NoDir]
    /\ wLock = [d \in DirIds |-> 0]
    /\ wSweep = [r \in Requests |-> NoSweep]
    /\ wCmds = [r \in Requests |-> <<>>]
    /\ wSaved = [r \in Requests |-> 0]
    /\ wResp = [r \in Requests |-> 0]
    /\ wNow = 0
    /\ wTtl \in ttls
    /\ wRemoved = {}

WebFrame == UNCHANGED <<wForm, wTtl, runVars, dhVars, tmVars, rbVars, bpVars, riVars, dsVars,
                        cliVars>>

\* time passes
Tick ==
    /\ wNow < MaxClock
    /\ wNow' = wNow + 1
    /\ WebFrame
    /\ UNCHANGED <<wPc, wDirs, wLock, wSweep, wCmds, wSaved, wResp, wRemoved>>

\* lines 135-136: no image files, status 400
WebStart(r) ==
    /\ wPc[r] = "new"
    /\ IF wForm[r].images
       THEN wPc' = [wPc EXCEPT ![r] = "cleanup"] /\ UNCHANGED wResp
       ELSE wPc' = [wPc EXCEPT ![r] = "done"] /\ wResp' = [wResp EXCEPT ![r] = 400]
    /\ WebFrame
    /\ UNCHANGED <<wDirs, wLock, wSweep, wCmds, wSaved, wNow, wRemoved>>

\* lines 85-89: _cleanup_tmp_runs reads the clock and lists TMP_ROOT
SweepBegin(r) ==
    /\ wPc[r] = "cleanup"
    /\ IF wTtl <= 0
       THEN wPc' = [wPc EXCEPT ![r] = "mkdtemp"] /\ UNCHANGED wSweep
       ELSE /\ wPc' = [wPc EXCEPT ![r] = "sweep"]
            /\ wSweep' = [wSweep EXCEPT ![r] =
                             [now |-> wNow, todo |-> {d \in DirIds : wDirs[d].exists},
                              cur |-> LeftDir, age |-> 0]]
    /\ WebFrame
    /\ UNCHANGED <<wDirs, wLock, wCmds, wSaved, wResp, wNow, wRemoved>>

\* lines 89-96: the next entry; it is skipped unless it is a directory older
\* than the TTL
SweepNext(r) ==
    /\ wPc[r] = "sweep" /\ wSweep[r].todo # {}
    /\ \E d \in wSweep[r].todo :
          /\ wSweep' = [wSweep EXCEPT ![r].todo = @ \ {d}, ![r].cur = d,
                                      ![r].age = wSweep[r].now - wDirs[d].mtime]
          /\ wPc' = [wPc EXCEPT ![r] =
                        IF wDirs[d].exists /\ wSweep[r].now - wDirs[d].mtime > wTtl
                        THEN "exists" ELSE "sweep"]
    /\ WebFrame
    /\ UNCHANGED <<wDirs, wLock, wCmds, wSaved, wResp, wNow, wRemoved>>

\* the loop of line 89 has ended
SweepEnd(r) ==
    /\ wPc[r] = "sweep" /\ wSweep[r].todo = {}
    /\ wPc' = [wPc EXCEPT ![r] = "mkdtemp"]
    /\ WebFrame
    /\ UNCHANGED <<wDirs, wLock, wSweep, wCmds, wSaved, wResp, wNow, wRemoved>>

\* lines 97-98: lock_path.exists()
SweepExists(r) ==
    /\ wPc[r] = "exists"
    /\ LET d == wSweep[r].cur
       IN  wPc' = [wPc EXCEPT ![r] =
                      IF wDirs[d].exists /\ wDirs[d].lockfile THEN "probe" ELSE "rmtree"]
    /\ WebFrame
    /\ UNCHANGED <<wDirs, wLock, wSweep, wCmds, wSaved, wResp, wNow, wRemoved>>

\* lines 99-104: the lock file is opened and locked without blocking; the lock
\* is given back when the with block closes the file. A failure goes on with the
\* next entry.
SweepProbe(r) ==
    /\ wPc[r] = "probe"
    /\ LET d == wSweep[r].cur
       IN  /\ wPc' = [wPc EXCEPT ![r] =
                         IF wDirs[d].exists /\ wLock[d] = 0 THEN "rmtree" ELSE "sweep"]
           /\ wDirs' = [wDirs EXCEPT ![d].lockfile = wDirs[d].exists]
    /\ WebFrame
    /\ UNCHANGED <<wLock, wSweep, wCmds, wSaved, wResp, wNow, wRemoved>>

\* a removal: the directory, the sweeping request, the holder of the directory's
\* lock at that moment and the age the sweep had found
Removal(d, by) ==
    [dir |-> d, by |-> by, held |-> wLock[d], age |-> wSweep[by].age]

\* line 105: shutil.rmtree(path, ignore_errors=True)
Removed(d, by) ==
    IF wDirs[d].exists THEN {Removal(d, by)} ELSE {}

SweepRemove(r) ==
    /\ wPc[r] = "rmtree"
    /\ LET d == wSweep[r].cur
           gone == Removed(d, r)
       IN  /\ wRemoved' = wRemoved \cup gone
           /\ wDirs' = IF gone # {} THEN [wDirs EXCEPT ![d] = NoDir] ELSE wDirs
    /\ wPc' = [wPc EXCEPT ![r] = "sweep"]
    /\ WebFrame
    /\ UNCHANGED <<wLock, wSweep, wCmds, wSaved, wResp, wNow>>

\* line 139: tempfile.TemporaryDirectory
Mkdtemp(r) ==
    /\ wPc[r] = "mkdtemp"
    /\ wDirs' = [wDirs EXCEPT ![r] = [exists |-> TRUE, mtime |-> wNow, lockfile |-> FALSE]]
    /\ wPc' = [wPc EXCEPT ![r] = "lockopen"]
    /\ WebFrame
    /\ UNCHANGED <<wLock, wSweep, wCmds, wSaved, wResp, wNow, wRemoved>>

\* an exception outside the try block of line 149 leaves the handler
Escapes(r) ==
    /\ wPc' = [wPc EXCEPT ![r] = "done"]
    /\ wResp' = [wResp EXCEPT ![r] = 500]
    /\ wLock' = [d \in DirIds |-> IF wLock[d] = r THEN 0 ELSE wLock[d]]

\* line 109: the lock file is opened in the run directory
LockOpen(r) ==
    /\ wPc[r] = "lockopen"
    /\ IF wDirs[r].exists
       THEN /\ wDirs' = [wDirs EXCEPT ![r].lockfile = TRUE, ![r].mtime = wNow]
            /\ wPc' = [wPc EXCEPT ![r] = "flock"]
            /\ UNCHANGED <<wResp, wLock>>
       ELSE Escapes(r) /\ UNCHANGED wDirs
    /\ WebFrame
    /\ UNCHANGED <<wSweep, wCmds, wSaved, wNow, wRemoved>>

\* line 110: flock(LOCK_EX) returns once the lock is free
LockAcquire(r) ==
    /\ wPc[r] = "flock"
    /\ wLock[r] = 0
    /\ wLock' = [wLock EXCEPT ![r] = r]
    /\ wPc' = [wPc EXCEPT ![r] = "mkdirs"]
    /\ WebFrame
    /\ UNCHANGED <<wDirs, wSweep, wCmds, wSaved, wResp, wNow, wRemoved>>

\* lines 142-147: images, labels and out are made in the run directory
Mkdirs(r) ==
    /\ wPc[r] = "mkdirs"
    /\ IF wDirs[r].exists
       THEN /\ wDirs' = [wDirs EXCEPT ![r].mtime = wNow]
            /\ wPc' = [wPc EXCEPT ![r] = "uploads"]
            /\ UNCHANGED <<wResp, wLock>>
       ELSE Escapes(r) /\ UNCHANGED wDirs
    /\ WebFrame
    /\ UNCHANGED <<wSweep, wCmds, wSaved, wNow, wRemoved>>

\* an exception inside the try block: status 500, then the finally block
Fails(r) ==
    /\ wPc' = [wPc EXCEPT ![r] = "release"]
    /\ wResp' = [wResp EXCEPT ![r] = 500]

\* lines 150-158: the uploads are saved; label_saved_count counts the label
\* items that have a file name
SaveUploads(r) ==
    /\ wPc[r] = "uploads"
    /\ wDirs[r].exists
    /\ wSaved' = [wSaved EXCEPT ![r] = IF wForm[r].labels = "one" THEN 1 ELSE 0]
    /\ wPc' = [wPc EXCEPT ![r] = "commands"]
    /\ WebFrame
    /\ UNCHANGED <<wDirs, wLock, wSweep, wCmds, wResp, wNow, wRemoved>>

\* lines 150-155: _save_uploads raises (a file name or a size is refused, or the
\* run directory is gone)
SaveUploadsRaises(r) ==
    /\ wPc[r] = "uploads"
    /\ Fails(r)
    /\ WebFrame
    /\ UNCHANGED <<wDirs, wLock, wSweep, wCmds, wSaved, wNow, wRemoved>>

\* a call of _run_cli: the command, whether it carries --labels, its env and
\* whether the return code was zero
Invocation(cmd, with_labels, env, ok) ==
    [cmd |-> cmd, labels |-> with_labels, env |-> env, ok |-> ok]

\* lines 179-185: the environment of the validate command after a preprocess
PreprocessEnv(form, label_saved_count) ==
    [custom |-> TRUE, spacing |-> form.spacing, orientation |-> form.orientation,
     copy_metadata |-> "false",
     labels_provided |-> IF label_saved_count > 0 THEN "true" ELSE "false",
     labels_uploaded |-> label_saved_count]

\* lines 165-178: in preprocess mode neurotk preprocess is run first; a non-zero
\* return code raises
RunPreprocess(r) ==
    /\ wPc[r] = "commands" /\ wForm[r].mode = "preprocess"
    /\ \E ok \in BOOLEAN :
          /\ wCmds' = [wCmds EXCEPT ![r] =
                          Append(@, Invocation("preprocess", wSaved[r] > 0, NoEnv, ok))]
          /\ IF ok THEN wPc' = [wPc EXCEPT ![r] = "validate"] /\ UNCHANGED wResp
             ELSE Fails(r)
    /\ WebFrame
    /\ UNCHANGED <<wDirs, wLock, wSweep, wSaved, wNow, wRemoved>>

\* a mutant: the environment of a preprocess run is not passed on
ValidateEnvDropped(form, label_saved_count) == NoEnv

\* lines 164-185, 200: env of the validate command
ValidateEnv(form, label_saved_count) ==
    IF form.mode = "preprocess" THEN PreprocessEnv(form, label_saved_count) ELSE NoEnv

\* lines 187-212: neurotk validate is run and the reports are copied
RunValidate(r) ==
    /\ \/ wPc[r] = "validate"
       \/ wPc[r] = "commands" /\ wForm[r].mode # "preprocess"
    /\ \E ok \in BOOLEAN :
          /\ wCmds' = [wCmds EXCEPT ![r] =
                          Append(@, Invocation("validate", wSaved[r] > 0,
                                               ValidateEnv(wForm[r], wSaved[r]), ok))]
          /\ IF ok THEN /\ wPc' = [wPc EXCEPT ![r] = "release"]
                        /\ wResp' = [wResp EXCEPT ![r] = 200]
             ELSE Fails(r)
    /\ WebFrame
    /\ UNCHANGED <<wDirs, wLock, wSweep, wSaved, wNow, wRemoved>>

\* line 216: _release_run_lock
ReleaseLock(r) ==
    /\ wPc[r] = "release"
    /\ wLock' = [wLock EXCEPT ![r] = 0]
    /\ wPc' = [wPc EXCEPT ![r] = "tmpcleanup"]
    /\ WebFrame
    /\ UNCHANGED <<wDirs, wSweep, wCmds, wSaved, wResp, wNow, wRemoved>>

\* line 217: tmp.cleanup()
TmpCleanup(r) ==
    /\ wPc[r] = "tmpcleanup"
    /\ wDirs' = [wDirs EXCEPT ![r] = NoDir]
    /\ wPc' = [wPc EXCEPT ![r] = "done"]
    /\ WebFrame
    /\ UNCHANGED <<wLock, wSweep, wCmds, wSaved, wResp, wNow, wRemoved>>

(***************************************************************************)
(* Claims about the /run handler                                           *)
(***************************************************************************)
\* the commands of a request in their fixed order, as the claim has them
ClaimedCommands(form) ==
    LET with_labels == form.labels = "one"
        count == IF with_labels THEN 1 ELSE 0
        validate_env == [custom |-> TRUE, spacing |-> form.spacing,
                         orientation |-> form.orientation, copy_metadata |-> "false",
                         labels_provided |-> IF with_labels THEN "true" ELSE "false",
                         labels_uploaded |-> count]
    IN  IF form.mode = "validate"
        THEN <<[cmd |-> "validate", labels |-> with_labels, env |-> NoEnv]>>
        ELSE <<[cmd |-> "preprocess", labels |-> with_labels, env |-> NoEnv],
               [cmd |-> "validate", labels |-> with_labels, env |-> validate_env]>>

Issued(r) == [i \in 1..Len(wCmds[r]) |->
                 [cmd |-> wCmds[r][i].cmd, labels |-> wCmds[r][i].labels,
                  env |-> wCmds[r][i].env]]

\* C26: the /run handler issues its commands in a fixed order: in validate mode
\* one command, neurotk validate, with no custom environment; in preprocess mode
\* two, neurotk preprocess first with no custom environment and neurotk validate
\* second with an environment carrying the spacing, the orientation,
\* copy-metadata false and the label counts; validate is never issued after a
\* preprocess that failed; each command carries --labels exactly when at least one
\* label file was saved.
C26_CommandOrder ==
    \A r \in Requests :
        LET claimed == ClaimedCommands(wForm[r])
            issued == Issued(r)
        IN  /\ Len(issued) <= Len(claimed)
            /\ \A i \in 1..Len(issued) :
                  /\ issued[i] = claimed[i]
                  /\ i < Len(issued) => wCmds[r][i].ok
            /\ (wPc[r] \in {"release", "tmpcleanup", "done"} /\ issued # <<>>) =>
                  \/ issued = claimed
                  \/ Len(issued) = 1 /\ issued[1].cmd = "preprocess" /\ ~wCmds[r][1].ok
            /\ wResp[r] = 200 => issued = claimed

\* C26 witness: a preprocess request with a label file went through
C26_Witness ==
    /\ wPc[1] = "done" /\ wResp[1] = 200
    /\ wForm[1].mode = "preprocess" /\ wForm[1].labels = "one"
    /\ Len(wCmds[1]) = 2 /\ wCmds[1][1].labels /\ wCmds[1][2].env.custom

\* C30: under any interleaving of concurrent /run requests and for any directory
\* age, the sweep of one request never removes the run directory of another
\* request that holds its run lock; a directory is removed by the sweep only when
\* it is older than the TTL and its lock is not held.
C30_SweepSparesLockedAsClaimed ==
    \A x \in wRemoved :
        /\ (x.dir \in Requests /\ x.dir # x.by) => x.held # x.dir
        /\ x.age > wTtl /\ x.held = 0

(***************************************************************************)
(* Specifications                                                          *)
(***************************************************************************)
Init == RunInit /\ DhIdle /\ TmIdle /\ RbIdle /\ BpIdle /\ RiIdle /\ DsIdle /\ CliIdle /\ WebIdle

Next ==
    \/ PredictOk
    \/ PredictRaises
    \/ WriteOk
    \/ WriteRaises
    \/ MetricsSkip
    \/ MetricsRecord
    \/ MetricsRaises
    \/ Report

Spec == Init /\ [][Next]_vars

\* make_dice_helper_compat
InitDice == DhInit /\ RunIdle /\ TmIdle /\ RbIdle /\ BpIdle /\ RiIdle /\ DsIdle /\ CliIdle /\ WebIdle

NextDice ==
    \/ MakeDiceHelperCompat
    \/ CompatNew

SpecDice == InitDice /\ [][NextDice]_vars

\* install_transform_compat
InitTransform == TmInit /\ RunIdle /\ DhIdle /\ RbIdle /\ BpIdle /\ RiIdle /\ DsIdle /\ CliIdle /\ WebIdle

NextTransform ==
    \/ InstallTransformCompat
    \/ InstallAgain

SpecTransform == InitTransform /\ [][NextTransform]_vars

\* resolve_bundle_dir
InitResolve == RbInit /\ RunIdle /\ DhIdle /\ TmIdle /\ BpIdle /\ RiIdle /\ DsIdle /\ CliIdle /\ WebIdle

NextResolve == ResolveBundleDir

SpecResolve == InitResolve /\ [][NextResolve]_vars

\* BundlePredictor construction
InitPredictor == BpInit /\ RunIdle /\ DhIdle /\ TmIdle /\ RbIdle /\ RiIdle /\ DsIdle /\ CliIdle /\ WebIdle

NextPredictor ==
    \/ ResolveConfigFile
    \/ LoadScripted
    \/ LoadScriptedRaises
    \/ LoadNoCheckpoint
    \/ LoadDeclarative

SpecPredictor == InitPredictor /\ [][NextPredictor]_vars

\* BundlePredictor construction followed by predict_volume calls
InitPredict == PipelineInit /\ RunIdle /\ DhIdle /\ TmIdle /\ RbIdle /\ RiIdle /\ DsIdle /\ CliIdle /\ WebIdle

NextPredict ==
    \/ ResolveConfigFile
    \/ LoadScripted
    \/ LoadScriptedRaises
    \/ LoadNoCheckpoint
    \/ LoadDeclarative
    \/ PredictScripted
    \/ PredictDeclarative

SpecPredict == InitPredict /\ [][NextPredict]_vars

\* run_inference without labels: the files written and their spatial frames
InitWrite == WriteInit /\ DhIdle /\ TmIdle /\ RbIdle /\ BpIdle /\ RiIdle /\ DsIdle /\ CliIdle /\ WebIdle

NextWrite ==
    \/ PredictOk
    \/ PredictRaises
    \/ WriteOk
    \/ WriteRaises
    \/ MetricsSkip
    \/ Report

SpecWrite == InitWrite /\ [][NextWrite]_vars

\* _resolve_inputs alone
InitInputs == RiInit /\ RunIdle /\ DhIdle /\ TmIdle /\ RbIdle /\ BpIdle /\ DsIdle /\ CliIdle /\ WebIdle

NextInputs == ResolveInputs

SpecInputs == InitInputs /\ [][NextInputs]_vars

\* dice_score alone
InitScore == DsInit /\ RunIdle /\ DhIdle /\ TmIdle /\ RbIdle /\ BpIdle /\ RiIdle /\ CliIdle /\ WebIdle

NextScore == CallDiceScore

SpecScore == InitScore /\ [][NextScore]_vars

\* cli.run alone
InitCli == CliInit /\ RunIdle /\ DhIdle /\ TmIdle /\ RbIdle /\ BpIdle /\ RiIdle /\ DsIdle /\ WebIdle

NextCli == CliRun

SpecCli == InitCli /\ [][NextCli]_vars

\* one /run request with any form
InitWeb ==
    /\ WebInitOver({1}, Forms, {0, 1})
    /\ RunIdle /\ DhIdle /\ TmIdle /\ RbIdle /\ BpIdle /\ RiIdle /\ DsIdle /\ CliIdle

NextWeb ==
    \/ Tick
    \/ \E r \in Requests : WebStart(r)
    \/ \E r \in Requests : SweepBegin(r)
    \/ \E r \in Requests : SweepNext(r)
    \/ \E r \in Requests : SweepEnd(r)
    \/ \E r \in Requests : SweepExists(r)
    \/ \E r \in Requests : SweepProbe(r)
    \/ \E r \in Requests : SweepRemove(r)
    \/ \E r \in Requests : Mkdtemp(r)
    \/ \E r \in Requests : LockOpen(r)
    \/ \E r \in Requests : LockAcquire(r)
    \/ \E r \in Requests : Mkdirs(r)
    \/ \E r \in Requests : SaveUploads(r)
    \/ \E r \in Requests : SaveUploadsRaises(r)
    \/ \E r \in Requests : RunPreprocess(r)
    \/ \E r \in Requests : RunValidate(r)
    \/ \E r \in Requests : ReleaseLock(r)
    \/ \E r \in Requests : TmpCleanup(r)

SpecWeb == InitWeb /\ [][NextWeb]_vars

\* two concurrent /run requests
SweepForms ==
    { [mode |-> "preprocess", spacing |-> <<"1", " ", "1", " ", "1">>, orientation |-> "RAS",
       images |-> TRUE, labels |-> "one"] }

InitSweep ==
    /\ WebInitOver(Requests, SweepForms, {1})
    /\ RunIdle /\ DhIdle /\ TmIdle /\ RbIdle /\ BpIdle /\ RiIdle /\ DsIdle /\ CliIdle

SpecSweep == InitSweep /\ [][NextWeb]_vars

====
